---- MODULE Spec2Model ----
(***************************************************************************)
(* forwardcache: the byte-budgeted LRU layer (package lru) over a backing  *)
(* httpcache.Cache, the Client router with its consistent-hash ring, and   *)
(* the Peer with its boundary proxy.                                        *)
(***************************************************************************)
EXTENDS Integers, Sequences, FiniteSets, TLC

VARIABLES
    capacity,   \* the cap argument New was called with (c.cap before any call)
    items,      \* Cache.items: key -> tracked size of its cacheItem
    list,       \* Cache.list: keys of the cacheItems, front (most recent) first
    cap,        \* Cache.cap: the remaining budget
    store,      \* Cache.c: the backing httpcache.Cache, key -> value
    ret,        \* (resp, ok) returned by the last sequential Get
    last,       \* the last sequential call: its name, arguments and effect
    watch,      \* the key of the last Get that hit, and the keys tracked then
                \* that no call has touched since
    recent,     \* the tracked keys by the time of their last Set or Get that
                \* hit, latest first, as the sequential calls were made
    mu,         \* Cache.mu: the goroutine holding it, or NoThread
    th,         \* per goroutine: where it is in its call, and the call's locals
    unit,       \* the object the callers of this run use: "lru", "client",
                \* "peer" (its router) or "proxy" (its handler)
    peers,      \* Client.peers
    hashMap,    \* Client.hashMap: the consistent-hash ring
    rw,         \* Client.mu: the writer holding it and the readers holding it
    pool,       \* the peer list of the last SetPool that has returned
    rt,         \* per goroutine calling the Client: its position and locals
    self,       \* Peer.self
    path,       \* Client.path, also the path of the Peer's boundary proxy
    call,       \* the RoundTrip under way on the Peer or its Client, or the
                \* last one that returned
    heap,       \* the header maps and value slices of the requests
    wire,       \* the requests handed to a transport during the call, each
                \* with the transport it was handed to and what came back
    cache,      \* Peer.cache: the keys it holds a response for
    srv,        \* the inbound request the boundary proxy serves, or the last
                \* one it answered
    ops         \* the cache and origin calls made for the request in hand

lruVars == <<capacity, items, list, cap, store>>
clientVars == <<peers, hashMap, rw, pool, rt>>
seqVars == <<ret, last, watch, recent>>
peerVars == <<self, path, call, heap, wire, cache, srv, ops>>
vars == <<capacity, items, list, cap, store, ret, last, watch, recent, mu, th,
          unit, peers, hashMap, rw, pool, rt, self, path, call, heap, wire,
          cache, srv, ops>>

----------------------------------------------------------------------------
(* Bounds and inputs                                                        *)

MaxLen == 2          \* values are byte slices of 0..MaxLen bytes
MaxCap == 2          \* New is called with a capacity in 0..MaxCap
TestCap == 10        \* capacity of the cache TestSet builds

Bytes == {0, 1}

\* A byte slice of n bytes, all equal to b.
Blob(n, b) == [i \in 1..n |-> b]

\* The keys and values sequential callers pass: the keys and sizes of
\* TestSet's first rows against its cache of TestCap bytes, every slice of up
\* to MaxLen bytes against the small caches.
TestKeys == {"key1", "key2", "key3", "key4"}
TestValues == {Blob(4, 0), Blob(6, 0), Blob(12, 0)}
SmallKeys == {"key1", "key2", "key3"}
SmallValues == {Blob(n, b) : n \in 0..MaxLen, b \in Bytes}
Keys == IF capacity = TestCap THEN TestKeys ELSE SmallKeys
Values == IF capacity = TestCap THEN TestValues ELSE SmallValues

Capacities == (0..MaxCap) \cup {TestCap}

NoKey == "none"

Threads == {"g1", "g2"}
NoThread == "nobody"

\* The keys and values concurrent callers use: a short value and a long one.
RaceKeys == {"key1", "key2"}
RaceValues == {Blob(1, 0), Blob(MaxLen, 0)}

----------------------------------------------------------------------------
(* container/list and map helpers                                           *)

Range(s) == {s[i] : i \in 1..Len(s)}

RECURSIVE SumSizes(_, _)
SumSizes(m, ks) ==
    IF ks = {} THEN 0
    ELSE LET k == CHOOSE x \in ks : TRUE IN m[k] + SumSizes(m, ks \ {k})

\* Sum of the tracked sizes of every index entry.
Tracked(m) == SumSizes(m, DOMAIN m)

Without(s, k) == SelectSeq(s, LAMBDA x : x # k)

\* list.PushFront
PushFront(l, k) == <<k>> \o l

\* list.MoveToFront: a no-op for an element that is not in the list
MoveToFront(l, k) == IF k \in Range(l) THEN <<k>> \o Without(l, k) ELSE l

\* Mutant of Back: list.Front() where list.Back() is meant.
BackIsFront(l) == l[1]

\* list.Back().Value.(*cacheItem).key
Back(l) == l[Len(l)]

\* map assignment and delete
MapSet(m, k, v) == [x \in DOMAIN m \cup {k} |-> IF x = k THEN v ELSE m[x]]
MapDelete(m, k) == [x \in DOMAIN m \ {k} |-> m[x]]

EmptyMap == [x \in {} |-> 0]

----------------------------------------------------------------------------
(* The backing store (httpcache.Cache contract)                            *)

StoreGet(s, k) ==
    IF k \in DOMAIN s THEN [ok |-> TRUE, resp |-> s[k]]
    ELSE [ok |-> FALSE, resp |-> <<>>]

StoreSet(s, k, v) == MapSet(s, k, v)

StoreDelete(s, k) == MapDelete(s, k)

RECURSIVE StoreDeleteAll(_, _)
StoreDeleteAll(s, vs) ==
    IF vs = <<>> THEN s
    ELSE StoreDeleteAll(StoreDelete(s, Head(vs)), Tail(vs))

----------------------------------------------------------------------------
(* The index, as a record [items, list, cap], and the locked sections      *)

Index(i, l, c) == [items |-> i, list |-> l, cap |-> c]

\* Mutant of purge: the item's size is not given back to the budget.
purgeNoRefund(ix, k) ==
    Index(MapDelete(ix.items, k), Without(ix.list, k), ix.cap)

\* Cache.purge
purge(ix, k) ==
    Index(MapDelete(ix.items, k), Without(ix.list, k), ix.cap + ix.items[k])

\* Mutant of Upsert: an existing item is resized but not moved to the front.
UpsertNoMove(ix, k, n) ==
    IF k \in DOMAIN ix.items
    THEN [ix |-> Index(MapSet(ix.items, k, n), ix.list, ix.cap),
          added |-> n - ix.items[k]]
    ELSE [ix |-> Index(MapSet(ix.items, k, n), PushFront(ix.list, k), ix.cap),
          added |-> n]

\* Mutant of Upsert: an existing item is charged its whole new size.
UpsertFullCharge(ix, k, n) ==
    IF k \in DOMAIN ix.items
    THEN [ix |-> Index(MapSet(ix.items, k, n), MoveToFront(ix.list, k), ix.cap),
          added |-> n]
    ELSE [ix |-> Index(MapSet(ix.items, k, n), PushFront(ix.list, k), ix.cap),
          added |-> n]

\* Set, the if/else on the key's presence: the index after it and `added`
Upsert(ix, k, n) ==
    IF k \in DOMAIN ix.items
    THEN [ix |-> Index(MapSet(ix.items, k, n), MoveToFront(ix.list, k), ix.cap),
          added |-> n - ix.items[k]]
    ELSE [ix |-> Index(MapSet(ix.items, k, n), PushFront(ix.list, k), ix.cap),
          added |-> n]

\* Set: c.cap -= added
Charge(ix, added) == Index(ix.items, ix.list, ix.cap - added)

\* Mutant of MustEvict: the last remaining entry is not exempt.
MustEvictLast(ix) == ix.cap < 0 /\ Len(ix.list) > 0

\* Set: the condition of the eviction loop
MustEvict(ix) == ix.cap < 0 /\ Len(ix.list) > 1

\* Set: the eviction loop, victims in the order they are appended
RECURSIVE EvictLoop(_, _)
EvictLoop(ix, victims) ==
    IF MustEvict(ix)
    THEN EvictLoop(purge(ix, Back(ix.list)), Append(victims, Back(ix.list)))
    ELSE [ix |-> ix, victims |-> victims]

\* Set: everything between c.mu.Lock() and c.mu.Unlock()
SetLocked(ix, k, n) ==
    LET u == Upsert(ix, k, n)
    IN  EvictLoop(Charge(u.ix, u.added), <<>>)

\* Delete: everything between c.mu.Lock() and c.mu.Unlock()
DeleteLocked(ix, k) == IF k \in DOMAIN ix.items THEN purge(ix, k) ELSE ix

\* Mutant of GetLocked: a hit does not refresh the item.
GetLockedNoRefresh(ix, k) == ix

\* Get: everything between c.mu.Lock() and c.mu.Unlock()
GetLocked(ix, k) ==
    IF k \in DOMAIN ix.items
    THEN Index(ix.items, MoveToFront(ix.list, k), ix.cap)
    ELSE ix

Cur == Index(items, list, cap)

Install(ix) == items' = ix.items /\ list' = ix.list /\ cap' = ix.cap

----------------------------------------------------------------------------
(* The consistent-hash ring (package consistenthash) and the Client's      *)
(* configuration                                                            *)

Replicas == 2        \* WithReplicas: virtual nodes per peer

PeerA == "http://a.com:3000"
PeerB == "http://b.com:3000"
PeerC == "http://c.com:3000"
NoPeer == ""

URLs == {"http://some.url/res-a.js", "http://some.url/res-b.js",
         "http://some.url/res-c.js"}

\* The peer lists SetPool and WithPool are given.
Pools == {<<>>, <<PeerA, PeerB>>, <<PeerC>>, <<PeerB, PeerC, PeerA>>}

\* The hash function WithHashFn installs, on the data the ring hashes: a
\* URL, or a virtual node <<i, peer>> standing for strconv.Itoa(i) + peer.
NameHash(name) ==
    CASE name = PeerA -> 1
      [] name = PeerB -> 6
      [] name = PeerC -> 11
      [] name = "http://some.url/res-a.js" -> 0
      [] name = "http://some.url/res-b.js" -> 10
      [] name = "http://some.url/res-c.js" -> 14
      [] OTHER -> 3

hashFn(data) ==
    IF data \in URLs THEN NameHash(data)
    ELSE (NameHash(data[2]) + 7 * data[1]) % 16

\* consistenthash.New
RingNew == [keys |-> <<>>, hashMap |-> EmptyMap]

\* Map.Add, the inner loop for one peer: its virtual nodes i = 0..replicas-1
RECURSIVE RingAddReplicas(_, _, _)
RingAddReplicas(m, peer, i) ==
    IF i >= Replicas THEN m
    ELSE LET h == hashFn(<<i, peer>>)
         IN  RingAddReplicas([keys |-> Append(m.keys, h),
                              hashMap |-> MapSet(m.hashMap, h, peer)],
                             peer, i + 1)

RingAddPeer(m, peer) == RingAddReplicas(m, peer, 0)

\* sort.Ints
RECURSIVE Insert(_, _)
Insert(srt, x) ==
    IF srt = <<>> THEN <<x>>
    ELSE IF x <= Head(srt) THEN <<x>> \o srt
    ELSE <<Head(srt)>> \o Insert(Tail(srt), x)

RECURSIVE SortInts(_)
SortInts(q) == IF q = <<>> THEN <<>> ELSE Insert(SortInts(Tail(q)), Head(q))

RingSort(m) == [m EXCEPT !.keys = SortInts(m.keys)]

RECURSIVE RingAddPeers(_, _)
RingAddPeers(m, ps) ==
    IF ps = <<>> THEN m ELSE RingAddPeers(RingAddPeer(m, Head(ps)), Tail(ps))

\* Map.Add
RingAdd(m, ps) == RingSort(RingAddPeers(m, ps))

\* sort.Search(n, keys[i] >= h): binary search over 0-based [lo, hi)
RECURSIVE Search(_, _, _, _)
Search(keys, h, lo, hi) ==
    IF lo >= hi THEN lo
    ELSE LET mid == (lo + hi) \div 2
         IN  IF keys[mid + 1] >= h THEN Search(keys, h, lo, mid)
             ELSE Search(keys, h, mid + 1, hi)

\* Map.Get
RingGet(m, key) ==
    IF Len(m.keys) = 0 THEN NoPeer
    ELSE LET idx == Search(m.keys, hashFn(key), 0, Len(m.keys))
         IN  m.hashMap[m.keys[(IF idx = Len(m.keys) THEN 0 ELSE idx) + 1]]

\* The ring SetPool leaves behind for a peer list.
RingOf(ps) == RingAdd(RingNew, ps)

----------------------------------------------------------------------------
(* Text, URLs and requests (net/url, net/http) as the router and the       *)
(* boundary proxy use them. A text is a sequence of tokens: a token is one *)
(* reserved character or a run of unreserved ones.                         *)

RECURSIVE Join(_)
\* The string a text spells.
Join(s) == IF s = <<>> THEN "" ELSE Head(s) \o Join(Tail(s))

\* The peers, as texts.
Text(peer) ==
    CASE peer = PeerA -> <<"http", ":", "/", "/", "a.com", ":", "3000">>
      [] peer = PeerB -> <<"http", ":", "/", "/", "b.com", ":", "3000">>
      [] peer = PeerC -> <<"http", ":", "/", "/", "c.com", ":", "3000">>
      [] OTHER -> <<>>

\* The resources requested through the pool.
ResA == <<"http", ":", "/", "/", "some.url", "/", "res-a.js">>
ResB == <<"http", ":", "/", "/", "some.url", "/", "res-b.js">>
ResC == <<"http", ":", "/", "/", "some.url", "/", "res-c.js">>
Resources == {ResA, ResB, ResC}

\* The two hex digits url.QueryEscape writes after "%" for a reserved
\* character, "" for a token it leaves alone.
EscapeOf(c) ==
    CASE c = ":" -> "3A"
      [] c = "/" -> "2F"
      [] c = "%" -> "25"
      [] c = "?" -> "3F"
      [] c = "=" -> "3D"
      [] c = "&" -> "26"
      [] OTHER -> ""

\* The character two hex digits stand for, "" when they are not hex digits.
Unhex(h) ==
    CASE h = "3A" -> ":"
      [] h = "2F" -> "/"
      [] h = "25" -> "%"
      [] h = "3F" -> "?"
      [] h = "3D" -> "="
      [] h = "26" -> "&"
      [] h = "31" -> "1"
      [] OTHER -> ""

RECURSIVE QueryEscape(_)
\* url.QueryEscape
QueryEscape(s) ==
    IF s = <<>> THEN <<>>
    ELSE (IF EscapeOf(Head(s)) = "" THEN <<Head(s)>>
          ELSE <<"%", EscapeOf(Head(s))>>) \o QueryEscape(Tail(s))

RECURSIVE QueryUnescape(_)
\* url.QueryUnescape: the text, and whether every "%" led two hex digits
QueryUnescape(s) ==
    IF s = <<>> THEN [ok |-> TRUE, text |-> <<>>]
    ELSE IF Head(s) = "%"
    THEN IF Len(s) >= 2 /\ Unhex(s[2]) # ""
         THEN LET r == QueryUnescape(SubSeq(s, 3, Len(s)))
              IN  [ok |-> r.ok, text |-> <<Unhex(s[2])>> \o r.text]
         ELSE [ok |-> FALSE, text |-> <<>>]
    ELSE LET r == QueryUnescape(Tail(s))
         IN  [ok |-> r.ok, text |-> <<Head(s)>> \o r.text]

RECURSIVE IndexOf(_, _, _)
\* strings.Index from position i on: where c first stands in s, 0 when
\* nowhere
IndexOf(s, c, i) ==
    IF i > Len(s) THEN 0 ELSE IF s[i] = c THEN i ELSE IndexOf(s, c, i + 1)

\* strings.Cut
Before(s, c) ==
    IF IndexOf(s, c, 1) = 0 THEN s ELSE SubSeq(s, 1, IndexOf(s, c, 1) - 1)
After(s, c) ==
    IF IndexOf(s, c, 1) = 0 THEN <<>> ELSE SubSeq(s, IndexOf(s, c, 1) + 1, Len(s))

\* url.Values.Get over url.ParseQuery, as URL.Query() runs it: the first
\* pair of the raw query with this key, unescaped; a pair with a malformed
\* escape is dropped, and "" stands for no value.
RECURSIVE QueryGet(_, _)
QueryGet(raw, key) ==
    IF raw = <<>> THEN <<>>
    ELSE LET pair == Before(raw, "&")
             k == QueryUnescape(Before(pair, "="))
             v == QueryUnescape(After(pair, "="))
         IN  IF k.ok /\ v.ok /\ k.text = <<key>> THEN v.text
             ELSE QueryGet(After(raw, "&"), key)

NoURL == [Scheme |-> "", Opaque |-> <<>>, Host |-> <<>>, Path |-> <<>>,
          RawQuery |-> <<>>]

\* A token url.Parse takes for a scheme.
Schemes == {"http", "https"}

\* url.parseHost: in a host "%" may only lead "25"
ValidHost(h) ==
    \A i \in 1..Len(h) : h[i] = "%" => i < Len(h) /\ h[i + 1] = "25"

\* url.unescape of a path: every "%" leads two hex digits
ValidPath(p) ==
    \A i \in 1..Len(p) : p[i] = "%" => i < Len(p) /\ Unhex(p[i + 1]) # ""

\* url.Parse: the error and the URL
Parse(s) ==
    LET hasScheme == Len(s) >= 2 /\ s[1] \in Schemes /\ s[2] = ":"
        scheme == IF hasScheme THEN s[1] ELSE ""
        tail == IF hasScheme THEN SubSeq(s, 3, Len(s)) ELSE s
        rest == Before(tail, "?")
        query == After(tail, "?")
        hasAuthority == Len(rest) >= 2 /\ rest[1] = "/" /\ rest[2] = "/"
        authority == SubSeq(rest, 3, Len(rest))
        slash == IndexOf(authority, "/", 1)
        host == IF slash = 0 THEN authority ELSE SubSeq(authority, 1, slash - 1)
        segs == IF ~hasAuthority THEN rest
                ELSE IF slash = 0 THEN <<>>
                ELSE SubSeq(authority, slash, Len(authority))
    IN  IF s # <<>> /\ s[1] = ":"
        THEN [err |-> "missing protocol scheme", url |-> NoURL]
        ELSE IF hasScheme /\ (rest = <<>> \/ rest[1] # "/")
        THEN [err |-> "", url |-> [NoURL EXCEPT !.Scheme = scheme,
                                                !.Opaque = rest,
                                                !.RawQuery = query]]
        ELSE IF ~hasScheme /\ IndexOf(Before(rest, "/"), ":", 1) # 0
        THEN [err |-> "first path segment in URL cannot contain colon",
              url |-> NoURL]
        ELSE IF hasAuthority /\ ~ValidHost(host)
        THEN [err |-> "invalid URL escape", url |-> NoURL]
        ELSE IF ~ValidPath(segs)
        THEN [err |-> "invalid URL escape", url |-> NoURL]
        ELSE [err |-> "", url |-> [Scheme |-> scheme, Opaque |-> <<>>,
                                   Host |-> IF hasAuthority THEN host ELSE <<>>,
                                   Path |-> segs, RawQuery |-> query]]

\* URL.String
String(u) ==
    (IF u.Scheme # "" THEN <<u.Scheme, ":">> ELSE <<>>)
    \o (IF u.Opaque # <<>> THEN u.Opaque
        ELSE (IF (u.Scheme # "" \/ u.Host # <<>>) /\ (u.Host # <<>> \/ u.Path # <<>>)
              THEN <<"/", "/">> \o u.Host ELSE <<>>)
             \o (IF u.Path # <<>> /\ u.Path[1] # "/" /\ u.Host # <<>>
                 THEN <<"/">> ELSE <<>>)
             \o u.Path)
    \o (IF u.RawQuery # <<>> THEN <<"?">> \o u.RawQuery ELSE <<>>)

----------------------------------------------------------------------------
(* The Peer: its configuration, the requests it routes and the requests    *)
(* its boundary proxy serves                                               *)

\* WithPath: the path the boundary proxies serve
Paths == {<<"/", "p">>, <<"/", "proxy">>}
DefaultPath == <<"/", "proxy">>

\* NewPeer's self
Selves == {PeerA}

Methods == {"GET", "POST"}

StatusOK == 200
StatusNotFound == 404
StatusBadGateway == 502

\* The heap of header maps (name -> slice) and of their value slices, by
\* address; 0 is nil.
NoHeap == [maps |-> EmptyMap, slices |-> EmptyMap]

Fresh(f) == Cardinality(DOMAIN f) + 1

\* make(http.Header): the heap and the new map's address
MakeHeader(hp) ==
    [heap |-> [hp EXCEPT !.maps = MapSet(@, Fresh(@), EmptyMap)],
     at |-> Fresh(hp.maps)]

\* h[name] = append([]string(nil), vals...): a new slice holding vals
SetValues(hp, h, name, vals) ==
    LET s == Fresh(hp.slices)
    IN  [maps |-> MapSet(hp.maps, h, MapSet(hp.maps[h], name, s)),
         slices |-> MapSet(hp.slices, s, vals)]

\* What a header map holds: name -> values
Contents(hp, h) ==
    IF h = 0 THEN EmptyMap
    ELSE [n \in DOMAIN hp.maps[h] |-> hp.slices[hp.maps[h][n]]]

\* The slices a header map refers to.
SlicesOf(hp, h) == IF h = 0 THEN {} ELSE {hp.maps[h][n] : n \in DOMAIN hp.maps[h]}

\* An http.Request: Body is what its body reader yields, ctx its context.
NoReq == [Method |-> "", URL |-> NoURL, Host |-> <<>>, Header |-> 0,
          Body |-> "", ctx |-> ""]

\* http.NewRequest(method, url, body), and what a caller may add to it
\* (accept): Header.Set("Accept", ...), a body when the method is POST, and
\* WithContext of a context that has a deadline. The heap and the request.
NewRequest(hp, method, url, accept) ==
    LET u == Parse(url).url
        h == MakeHeader(hp)
    IN  [heap |-> IF accept THEN SetValues(h.heap, h.at, "Accept", <<"text/javascript">>)
                  ELSE h.heap,
         req |-> [Method |-> method, URL |-> u, Host |-> u.Host, Header |-> h.at,
                  Body |-> IF accept /\ method = "POST" THEN "payload" ELSE "",
                  ctx |-> IF accept THEN "deadline" ELSE "background"]]

RECURSIVE CopyValues(_, _, _, _)
\* clone's loop over r.Header: r2.Header[k] = append([]string(nil), s...)
CopyValues(hp, from, to, names) ==
    IF names = {} THEN hp
    ELSE LET k == CHOOSE n \in names : TRUE
         IN  CopyValues(SetValues(hp, to, k, hp.slices[hp.maps[from][k]]),
                        from, to, names \ {k})

\* Mutant of clone: a new request for the same method, URL and Host.
cloneBare(hp, r) ==
    [heap |-> MakeHeader(hp).heap,
     req |-> [NoReq EXCEPT !.Method = r.Method, !.URL = r.URL, !.Host = r.Host,
                           !.Header = MakeHeader(hp).at, !.ctx = "background"]]

\* Mutant of clone: the copy shares the header map of the original.
cloneShallow(hp, r) == [heap |-> hp, req |-> r]

\* clone: the heap and the copy
clone(hp, r) ==
    LET h == MakeHeader(hp)
    IN  [heap |-> CopyValues(h.heap, r.Header, h.at, DOMAIN hp.maps[r.Header]),
         req |-> [r EXCEPT !.Header = h.at]]

\* Mutant of peerHandlerURL: the origin goes into the query as it is.
peerHandlerURLRaw(peer, origin) ==
    [Parse(Text(peer)).url EXCEPT !.Path = path, !.RawQuery = <<"q", "=">> \o origin]

\* peerHandlerURL
peerHandlerURL(peer, origin) ==
    [Parse(Text(peer)).url EXCEPT !.Path = path,
                                  !.RawQuery = <<"q", "=">> \o QueryEscape(origin)]

\* What a transport gives back: a response or an error.
NoOut == [err |-> "", status |-> 0, body |-> "", fromCache |-> FALSE]
Response(status, body) == [NoOut EXCEPT !.status = status, !.body = body]
Failure(err) == [NoOut EXCEPT !.err = err]

\* The peer-to-peer transport answers for the owner, or fails to reach it.
OutboundOutcomes == {Response(StatusOK, "OK"), Failure("connection refused")}

\* The origin servers: the resources they hold, Not Found for the rest.
Held == {Join(ResA)}
OriginMock(key) ==
    IF key \in Held THEN Response(StatusOK, "OK")
    ELSE Response(StatusNotFound, "Not Found")

\* The origin-fetch transport answers for the origin, or fails to reach it.
OriginOutcomes(key) == {OriginMock(key), Failure("no such host")}
AnyOrigin ==
    {Response(StatusOK, "OK"), Response(StatusNotFound, "Not Found"),
     Failure("no such host")}

\* httpcache.Transport.RoundTrip over the cache (the keys it holds) and the
\* origin-fetch transport: the cache it leaves, the calls it made, in order,
\* and what it returns.
CacheRoundTrip(c, method, key, origin) ==
    LET cacheable == method \in {"GET", "HEAD"}
        first == IF cacheable THEN <<"cache.Get">> ELSE <<"cache.Delete">>
        c1 == IF cacheable THEN c ELSE c \ {key}
    IN  IF cacheable /\ key \in c
        THEN [cache |-> c, ops |-> first,
              out |-> [Response(StatusOK, "OK") EXCEPT !.fromCache = TRUE]]
        ELSE IF origin.err # ""
        THEN [cache |-> c1, ops |-> first \o <<"origin.RoundTrip">>, out |-> origin]
        ELSE IF cacheable /\ origin.status = StatusOK
        THEN [cache |-> c1 \cup {key},
              ops |-> first \o <<"origin.RoundTrip", "cache.Set">>, out |-> origin]
        ELSE [cache |-> c1 \ {key},
              ops |-> first \o <<"origin.RoundTrip", "cache.Delete">>, out |-> origin]

\* No call of the router is under way.
CIdle == [pc |-> "idle", entry |-> "none", rcv |-> "none", req |-> NoReq,
          orig |-> NoReq, had |-> EmptyMap, members |-> <<>>, peer |-> NoPeer,
          cpy |-> NoReq, res |-> NoOut]

\* The request the proxy served last, when it went on to the caching
\* transport: its method, the URL it was for and the status it was answered.
NoPrev == [method |-> "", key |-> "", status |-> 0]

\* No inbound request is being served. Of the request in hand: its method,
\* URL and Host, the origin parsed from q, the request the reverse proxy
\* handed to the caching transport (outreq) and what the origin-fetch
\* transport gave for it (fetched), the cache as it was, and the answer
\* written; prev is the request served before it, seen the URLs for which
\* a GET was answered 200.
SIdle == [pc |-> "idle", method |-> "", Path |-> <<>>, RawQuery |-> <<>>,
          Host |-> <<>>, origin |-> NoURL, outreq |-> NoReq, fetched |-> NoOut,
          before |-> {}, status |-> 0, body |-> "", fromCache |-> FALSE,
          forwarded |-> FALSE, prev |-> NoPrev, seen |-> {}]

\* NewPeer(self, WithClient(NewClient(WithPath(p), ...)))
PeerInit(s, p) ==
    /\ self = s
    /\ path = p
    /\ call = CIdle
    /\ heap = NoHeap
    /\ wire = <<>>
    /\ cache = {}
    /\ srv = SIdle
    /\ ops = <<>>

----------------------------------------------------------------------------
(* Sequential use: each call runs to completion before the next starts     *)

NoRet == [ok |-> FALSE, resp |-> <<>>]

\* A goroutine that is in no call; ret and hit keep what its last Get
\* returned and whether that Get found the key in the index (in a Delete, hit
\* tells whether the purge found the key tracked), lost whether
\* another goroutine removed the key from the store between that Get's
\* unlock and its read ("evicted" by a Set, "deleted" by a Delete).
Idle == [pc |-> "idle", op |-> "none", key |-> NoKey, resp |-> <<>>,
         victims |-> <<>>, added |-> 0, ret |-> NoRet, hit |-> FALSE,
         lost |-> "no"]

NoWriter == [writer |-> NoThread, readers |-> {}]

\* A goroutine that is in no call of the Client.
RIdle == [pc |-> "idle", url |-> "", peer |-> NoPeer, arg |-> <<>>, i |-> 0,
          seen |-> {}, start |-> <<>>]

\* NewClient: the options, then SetPool(c.peers...)
ClientInit(ps) ==
    /\ peers = ps
    /\ hashMap = RingOf(ps)
    /\ rw = NoWriter
    /\ pool = ps
    /\ rt = [t \in Threads |-> RIdle]

\* New(c, cap)
CacheInit(c) ==
    /\ capacity = c
    /\ items = EmptyMap
    /\ list = <<>>
    /\ cap = c
    /\ store = EmptyMap
    /\ mu = NoThread
    /\ th = [t \in Threads |-> Idle]

\* What is remembered of the last sequential call: hit tells whether its key
\* was tracked when it started, fresh whether the call before it was a Set of
\* the same key, victims what it evicted.
Called(op, k, v, victims, hit, fresh) ==
    [op |-> op, key |-> k, resp |-> v, victims |-> victims, hit |-> hit,
     fresh |-> fresh]

NoCall == Called("New", NoKey, <<>>, <<>>, FALSE, FALSE)

NoWatch == [key |-> NoKey, untouched |-> {}]

InitSeq ==
    /\ \E c \in Capacities : CacheInit(c)
    /\ ClientInit(<<>>)
    /\ PeerInit(NoPeer, DefaultPath)
    /\ unit = "lru"
    /\ ret = NoRet
    /\ last = NoCall
    /\ watch = NoWatch
    /\ recent = <<>>

\* The watched key stays watched while it is tracked; a key stays untouched
\* while it is tracked and no call names it.
Rewatch(k) ==
    watch' = IF watch.key \in DOMAIN items'
             THEN [watch EXCEPT !.untouched = (@ \ {k}) \cap DOMAIN items']
             ELSE NoWatch

\* The call that was made touched key k (touched) or only named it.
Recall(k, touched) ==
    recent' = SelectSeq(IF touched THEN <<k>> \o Without(recent, k) ELSE recent,
                        LAMBDA x : x \in DOMAIN items')

SeqSet(k, v) ==
    LET r == SetLocked(Cur, k, Len(v))
    IN  /\ Install(r.ix)
        /\ store' = StoreSet(StoreDeleteAll(store, r.victims), k, v)
        /\ ret' = NoRet
        /\ last' = Called("Set", k, v, r.victims, k \in DOMAIN items, FALSE)
        /\ Rewatch(k)
        /\ Recall(k, TRUE)
        /\ UNCHANGED <<capacity, mu, th, unit, peerVars, clientVars>>

SeqGet(k) ==
    /\ Install(GetLocked(Cur, k))
    /\ ret' = IF k \in DOMAIN items THEN StoreGet(store, k) ELSE NoRet
    /\ last' = Called("Get", k, <<>>, <<>>, k \in DOMAIN items,
                      last.op = "Set" /\ last.key = k)
    /\ IF k \in DOMAIN items
       THEN watch' = [key |-> k, untouched |-> DOMAIN items \ {k}]
       ELSE Rewatch(k)
    /\ Recall(k, k \in DOMAIN items)
    /\ UNCHANGED <<capacity, store, mu, th, unit, peerVars, clientVars>>

SeqDelete(k) ==
    /\ Install(DeleteLocked(Cur, k))
    /\ store' = StoreDelete(store, k)
    /\ ret' = NoRet
    /\ last' = Called("Delete", k, <<>>, <<>>, k \in DOMAIN items, FALSE)
    /\ Rewatch(k)
    /\ Recall(k, FALSE)
    /\ UNCHANGED <<capacity, mu, th, unit, peerVars, clientVars>>

NextSeq ==
    \/ \E k \in Keys, v \in Values : SeqSet(k, v)
    \/ \E k \in Keys : SeqGet(k)
    \/ \E k \in Keys : SeqDelete(k)

SpecSeq == InitSeq /\ [][NextSeq]_vars

----------------------------------------------------------------------------
(* Concurrent use: goroutines step through Set, Get and Delete             *)

At(t, where) == th[t].pc = where

Goto(t, where) == th' = [th EXCEPT ![t].pc = where]

\* Mutant of Lock: it does not wait for the holder.
LockNoWait(t) == mu' = t

\* c.mu.Lock(): blocks while another goroutine holds the mutex
Lock(t) == mu = NoThread /\ mu' = t

\* th after goroutine t has removed key k from the store: the Gets that are
\* about to read k have lost it.
Losing(t, k, how) ==
    [u \in Threads |->
        IF u # t /\ th[u].pc = "GetRead" /\ th[u].key = k /\ k \in DOMAIN store
        THEN [th[u] EXCEPT !.lost = how] ELSE th[u]]

\* c.mu.Unlock()
Unlock(t) == mu' = NoThread

\* The Cache and the Client share no field: a run calls one of them.
Init ==
    /\ unit \in {"lru", "client"}
    /\ \E c \in 0..MaxCap : CacheInit(IF unit = "lru" THEN c ELSE 0)
    /\ \E ps \in Pools : ClientInit(IF unit = "client" THEN ps ELSE <<>>)
    /\ PeerInit(NoPeer, DefaultPath)
    /\ ret = NoRet
    /\ last = NoCall
    /\ watch = NoWatch
    /\ recent = <<>>

\* Set is called: victims := []string{}, added := 0
CallSet(t, k, v) ==
    /\ unit = "lru"
    /\ At(t, "idle")
    /\ th' = [th EXCEPT ![t] = [Idle EXCEPT !.pc = "SetLock", !.op = "Set",
                                            !.key = k, !.resp = v]]
    /\ UNCHANGED <<lruVars, seqVars, mu, unit, peerVars, clientVars>>

SetLock(t) ==
    /\ At(t, "SetLock")
    /\ Lock(t)
    /\ Goto(t, "SetUpsert")
    /\ UNCHANGED <<lruVars, seqVars, unit, peerVars, clientVars>>

\* Mutant of SetUpsert: growing a tracked item is not charged to the budget.
SetUpsertNoCharge(t) ==
    /\ At(t, "SetUpsert")
    /\ LET u == Upsert(Cur, th[t].key, Len(th[t].resp))
       IN  /\ Install(u.ix)
           /\ th' = [th EXCEPT ![t].pc = "SetCharge",
                               ![t].added = IF th[t].key \in DOMAIN items
                                            THEN 0 ELSE u.added]
    /\ UNCHANGED <<capacity, store, seqVars, mu, unit, peerVars, clientVars>>

\* Set: the if/else that refreshes or inserts the item
SetUpsert(t) ==
    /\ At(t, "SetUpsert")
    /\ LET u == Upsert(Cur, th[t].key, Len(th[t].resp))
       IN  /\ Install(u.ix)
           /\ th' = [th EXCEPT ![t].pc = "SetCharge", ![t].added = u.added]
    /\ UNCHANGED <<capacity, store, seqVars, mu, unit, peerVars, clientVars>>

\* Set: c.cap -= added
SetCharge(t) ==
    /\ At(t, "SetCharge")
    /\ Install(Charge(Cur, th[t].added))
    /\ Goto(t, "SetEvict")
    /\ UNCHANGED <<capacity, store, seqVars, mu, unit, peerVars, clientVars>>

\* Set: one test of the eviction loop's condition, and its body when true
SetEvict(t) ==
    /\ At(t, "SetEvict")
    /\ IF MustEvict(Cur)
       THEN /\ Install(purge(Cur, Back(list)))
            /\ th' = [th EXCEPT ![t].victims = Append(@, Back(list))]
       ELSE /\ Goto(t, "SetUnlock")
            /\ UNCHANGED <<items, list, cap>>
    /\ UNCHANGED <<capacity, store, seqVars, mu, unit, peerVars, clientVars>>

SetUnlock(t) ==
    /\ At(t, "SetUnlock")
    /\ Unlock(t)
    /\ Goto(t, "SetVictims")
    /\ UNCHANGED <<lruVars, seqVars, unit, peerVars, clientVars>>

\* Set: one iteration of the loop deleting the victims from the store
SetVictims(t) ==
    /\ At(t, "SetVictims")
    /\ IF th[t].victims # <<>>
       THEN /\ store' = StoreDelete(store, Head(th[t].victims))
            /\ th' = [Losing(t, Head(th[t].victims), "evicted")
                         EXCEPT ![t].victims = Tail(@)]
       ELSE /\ Goto(t, "SetStore")
            /\ UNCHANGED store
    /\ UNCHANGED <<capacity, items, list, cap, seqVars, mu, unit, peerVars, clientVars>>

\* Set: c.c.Set(key, resp), and return
SetStore(t) ==
    /\ At(t, "SetStore")
    /\ store' = StoreSet(store, th[t].key, th[t].resp)
    /\ th' = [th EXCEPT ![t] = Idle]
    /\ UNCHANGED <<capacity, items, list, cap, seqVars, mu, unit, peerVars, clientVars>>

CallGet(t, k) ==
    /\ unit = "lru"
    /\ At(t, "idle")
    /\ th' = [th EXCEPT ![t] = [Idle EXCEPT !.pc = "GetLock", !.op = "Get",
                                            !.key = k]]
    /\ UNCHANGED <<lruVars, seqVars, mu, unit, peerVars, clientVars>>

GetLock(t) ==
    /\ At(t, "GetLock")
    /\ Lock(t)
    /\ Goto(t, "GetLookup")
    /\ UNCHANGED <<lruVars, seqVars, unit, peerVars, clientVars>>

\* Mutant of GetLookup: an index miss goes on to read the store as a hit does.
GetLookupRead(t) ==
    /\ At(t, "GetLookup")
    /\ Install(GetLocked(Cur, th[t].key))
    /\ th' = [th EXCEPT ![t].hit = th[t].key \in DOMAIN items,
                        ![t].pc = "GetUnlock"]
    /\ UNCHANGED <<capacity, store, seqVars, mu, unit, peerVars, clientVars>>

\* Get: item, ok := c.items[key], and MoveToFront on a hit
GetLookup(t) ==
    /\ At(t, "GetLookup")
    /\ Install(GetLocked(Cur, th[t].key))
    /\ th' = [th EXCEPT ![t].hit = th[t].key \in DOMAIN items,
                        ![t].pc = IF th[t].key \in DOMAIN items
                                  THEN "GetUnlock" ELSE "GetMiss"]
    /\ UNCHANGED <<capacity, store, seqVars, mu, unit, peerVars, clientVars>>

\* Mutant of GetMiss: the index miss returns without releasing the mutex.
GetMissHold(t) ==
    /\ At(t, "GetMiss")
    /\ th' = [th EXCEPT ![t] = Idle]
    /\ UNCHANGED <<lruVars, seqVars, mu, unit, peerVars, clientVars>>

\* Get: the index miss, c.mu.Unlock() and return (nil, false)
GetMiss(t) ==
    /\ At(t, "GetMiss")
    /\ Unlock(t)
    /\ th' = [th EXCEPT ![t] = Idle]
    /\ UNCHANGED <<lruVars, seqVars, unit, peerVars, clientVars>>

\* Mutant of GetUnlock: the mutex is kept while the store is read.
GetUnlockLate(t) ==
    /\ At(t, "GetUnlock")
    /\ Goto(t, "GetRead")
    /\ UNCHANGED <<lruVars, seqVars, mu, unit, peerVars, clientVars>>

GetUnlock(t) ==
    /\ At(t, "GetUnlock")
    /\ Unlock(t)
    /\ Goto(t, "GetRead")
    /\ UNCHANGED <<lruVars, seqVars, unit, peerVars, clientVars>>

\* Mutant of GetRead: a store miss after an index hit is retried.
GetReadRetry(t) ==
    /\ At(t, "GetRead")
    /\ IF th[t].key \in DOMAIN store
       THEN th' = [th EXCEPT ![t] = [Idle EXCEPT !.hit = TRUE, !.lost = th[t].lost,
                                     !.ret = StoreGet(store, th[t].key)]]
       ELSE Goto(t, "GetLock")
    /\ UNCHANGED <<lruVars, seqVars, mu, unit, peerVars, clientVars>>

\* Get: return c.c.Get(key)
GetRead(t) ==
    /\ At(t, "GetRead")
    /\ th' = [th EXCEPT ![t] = [Idle EXCEPT !.hit = TRUE, !.lost = th[t].lost,
                                            !.ret = StoreGet(store, th[t].key)]]
    /\ UNCHANGED <<lruVars, seqVars, mu, unit, peerVars, clientVars>>

CallDelete(t, k) ==
    /\ unit = "lru"
    /\ At(t, "idle")
    /\ th' = [th EXCEPT ![t] = [Idle EXCEPT !.pc = "DeleteLock", !.op = "Delete",
                                            !.key = k]]
    /\ UNCHANGED <<lruVars, seqVars, mu, unit, peerVars, clientVars>>

DeleteLock(t) ==
    /\ At(t, "DeleteLock")
    /\ Lock(t)
    /\ Goto(t, "DeletePurge")
    /\ UNCHANGED <<lruVars, seqVars, unit, peerVars, clientVars>>

\* Mutant of DeletePurge: an untracked key ends the call as Get's index miss
\* does, by the unlock and the return.
DeletePurgeReturn(t) ==
    /\ At(t, "DeletePurge")
    /\ Install(DeleteLocked(Cur, th[t].key))
    /\ th' = [th EXCEPT ![t].hit = th[t].key \in DOMAIN items,
                        ![t].pc = IF th[t].key \in DOMAIN items
                                  THEN "DeleteUnlock" ELSE "GetMiss"]
    /\ UNCHANGED <<capacity, store, seqVars, mu, unit, peerVars, clientVars>>

\* Delete: purge the item when the key is tracked (hit notes whether it was)
DeletePurge(t) ==
    /\ At(t, "DeletePurge")
    /\ Install(DeleteLocked(Cur, th[t].key))
    /\ th' = [th EXCEPT ![t].hit = th[t].key \in DOMAIN items,
                        ![t].pc = "DeleteUnlock"]
    /\ UNCHANGED <<capacity, store, seqVars, mu, unit, peerVars, clientVars>>

DeleteUnlock(t) ==
    /\ At(t, "DeleteUnlock")
    /\ Unlock(t)
    /\ Goto(t, "DeleteStore")
    /\ UNCHANGED <<lruVars, seqVars, unit, peerVars, clientVars>>

\* Delete: c.c.Delete(key), and return
DeleteStore(t) ==
    /\ At(t, "DeleteStore")
    /\ store' = StoreDelete(store, th[t].key)
    /\ th' = [Losing(t, th[t].key, "deleted") EXCEPT ![t] = Idle]
    /\ UNCHANGED <<capacity, items, list, cap, seqVars, mu, unit, peerVars, clientVars>>

----------------------------------------------------------------------------
(* The Client: SetPool and RoundTrip                                        *)

RAt(t, where) == rt[t].pc = where

RGoto(t, where) == rt' = [rt EXCEPT ![t].pc = where]

\* The goroutines that are inside choosePeer.
Choosing == {t \in Threads : rt[t].pc \in {"RLock", "Get", "RUnlock"}}

\* The goroutines that are inside SetPool.
Setting ==
    {t \in Threads : rt[t].pc \in {"Lock", "Peers", "New", "Add", "Unlock"}}

\* What a RoundTrip notes of the peer list when it is called while a SetPool
\* is running.
Unsettled == <<"unsettled">>

\* sync.RWMutex
WLock(t) == rw.writer = NoThread /\ rw.readers = {} /\ rw' = [rw EXCEPT !.writer = t]
WUnlock(t) == rw' = [rw EXCEPT !.writer = NoThread]
RLock(t) == rw.writer = NoThread /\ rw' = [rw EXCEPT !.readers = @ \cup {t}]
RUnlock(t) == rw' = [rw EXCEPT !.readers = @ \ {t}]

CallSetPool(t, ps) ==
    /\ unit = "client"
    /\ RAt(t, "idle")
    /\ rt' = [rt EXCEPT ![t] = [RIdle EXCEPT !.pc = "Lock", !.arg = ps]]
    /\ UNCHANGED <<lruVars, seqVars, mu, th, unit, peerVars, peers, hashMap, rw, pool>>

\* SetPool: c.mu.Lock()
SetPoolLock(t) ==
    /\ RAt(t, "Lock")
    /\ WLock(t)
    /\ RGoto(t, "Peers")
    /\ UNCHANGED <<lruVars, seqVars, mu, th, unit, peerVars, peers, hashMap, pool>>

\* SetPool: c.peers = peers
SetPoolPeers(t) ==
    /\ RAt(t, "Peers")
    /\ peers' = rt[t].arg
    /\ RGoto(t, "New")
    /\ UNCHANGED <<lruVars, seqVars, mu, th, unit, peerVars, hashMap, rw, pool>>

\* Mutant of SetPoolNew: the ring in place is kept, and Add adds to it.
SetPoolKeep(t) ==
    /\ RAt(t, "New")
    /\ rt' = [rt EXCEPT ![t].pc = "Add", ![t].i = 1]
    /\ UNCHANGED <<lruVars, seqVars, mu, th, unit, peerVars, peers, hashMap, rw, pool>>

\* SetPool: c.hashMap = consistenthash.New(c.replicas, c.hashFn)
SetPoolNew(t) ==
    /\ RAt(t, "New")
    /\ hashMap' = RingNew
    /\ rt' = [rt EXCEPT ![t].pc = "Add", ![t].i = 1]
    /\ UNCHANGED <<lruVars, seqVars, mu, th, unit, peerVars, peers, rw, pool>>

\* SetPool: c.hashMap.Add(c.peers...), one peer of its loop, then the sort
SetPoolAdd(t) ==
    /\ RAt(t, "Add")
    /\ IF rt[t].i <= Len(peers)
       THEN /\ hashMap' = RingAddPeer(hashMap, peers[rt[t].i])
            /\ rt' = [rt EXCEPT ![t].i = @ + 1]
       ELSE /\ hashMap' = RingSort(hashMap)
            /\ RGoto(t, "Unlock")
    /\ UNCHANGED <<lruVars, seqVars, mu, th, unit, peerVars, peers, rw, pool>>

\* SetPool: the deferred c.mu.Unlock(), and return
SetPoolUnlock(t) ==
    /\ RAt(t, "Unlock")
    /\ WUnlock(t)
    /\ pool' = rt[t].arg
    /\ rt' = [u \in Threads |->
                IF u = t THEN RIdle
                ELSE IF u \in Choosing THEN [rt[u] EXCEPT !.seen = @ \cup {rt[t].arg}]
                ELSE rt[u]]
    /\ UNCHANGED <<lruVars, seqVars, mu, th, unit, peerVars, peers, hashMap>>

\* RoundTrip is called with a request for url
CallRoundTrip(t, url) ==
    /\ unit = "client"
    /\ RAt(t, "idle")
    /\ rt' = [rt EXCEPT ![t] = [RIdle EXCEPT
                  !.pc = "RLock", !.url = url, !.seen = {pool},
                  !.start = IF Setting = {} THEN pool ELSE Unsettled]]
    /\ UNCHANGED <<lruVars, seqVars, mu, th, unit, peerVars, peers, hashMap, rw, pool>>

\* Mutant of ChooseRLock: the ring is read without the read lock.
ChooseNoRLock(t) ==
    /\ RAt(t, "RLock")
    /\ RGoto(t, "Get")
    /\ UNCHANGED <<lruVars, seqVars, mu, th, unit, peerVars, peers, hashMap, rw, pool>>

\* choosePeer: c.mu.RLock()
ChooseRLock(t) ==
    /\ RAt(t, "RLock")
    /\ RLock(t)
    /\ RGoto(t, "Get")
    /\ UNCHANGED <<lruVars, seqVars, mu, th, unit, peerVars, peers, hashMap, pool>>

\* choosePeer: c.hashMap.Get(url)
ChooseGet(t) ==
    /\ RAt(t, "Get")
    /\ rt' = [rt EXCEPT ![t].pc = "RUnlock", ![t].peer = RingGet(hashMap, rt[t].url)]
    /\ UNCHANGED <<lruVars, seqVars, mu, th, unit, peerVars, peers, hashMap, rw, pool>>

\* choosePeer: the deferred c.mu.RUnlock(), and return
ChooseRUnlock(t) ==
    /\ RAt(t, "RUnlock")
    /\ RUnlock(t)
    /\ RGoto(t, "roundTripTo")
    /\ UNCHANGED <<lruVars, seqVars, mu, th, unit, peerVars, peers, hashMap, pool>>

\* roundTripTo: build the query, clone the request, hand it to the transport
RoundTripTo(t) ==
    /\ RAt(t, "roundTripTo")
    /\ RGoto(t, "Transport")
    /\ UNCHANGED <<lruVars, seqVars, mu, th, unit, peerVars, peers, hashMap, rw, pool>>

\* c.transport.RoundTrip(cpy) returns, and RoundTrip with it
TransportReturn(t) ==
    /\ RAt(t, "Transport")
    /\ rt' = [rt EXCEPT ![t] = RIdle]
    /\ UNCHANGED <<lruVars, seqVars, mu, th, unit, peerVars, peers, hashMap, rw, pool>>

Next ==
    \E t \in Threads :
        \/ \E k \in RaceKeys, v \in RaceValues : CallSet(t, k, v)
        \/ SetLock(t)
        \/ SetUpsert(t)
        \/ SetCharge(t)
        \/ SetEvict(t)
        \/ SetUnlock(t)
        \/ SetVictims(t)
        \/ SetStore(t)
        \/ \E k \in RaceKeys : CallGet(t, k)
        \/ GetLock(t)
        \/ GetLookup(t)
        \/ GetMiss(t)
        \/ GetUnlock(t)
        \/ GetRead(t)
        \/ \E k \in RaceKeys : CallDelete(t, k)
        \/ DeleteLock(t)
        \/ DeletePurge(t)
        \/ DeleteUnlock(t)
        \/ DeleteStore(t)
        \/ \E ps \in Pools : CallSetPool(t, ps)
        \/ SetPoolLock(t)
        \/ SetPoolPeers(t)
        \/ SetPoolNew(t)
        \/ SetPoolAdd(t)
        \/ SetPoolUnlock(t)
        \/ \E url \in URLs : CallRoundTrip(t, url)
        \/ ChooseRLock(t)
        \/ ChooseGet(t)
        \/ ChooseRUnlock(t)
        \/ RoundTripTo(t)
        \/ TransportReturn(t)

Spec == Init /\ [][Next]_vars

----------------------------------------------------------------------------
(* The cache alone, with the scheduling its progress rests on              *)

\* A caller enters Set, Get or Delete.
CallLru(t) ==
    \/ \E k \in RaceKeys, v \in RaceValues : CallSet(t, k, v)
    \/ \E k \in RaceKeys : CallGet(t, k)
    \/ \E k \in RaceKeys : CallDelete(t, k)

\* c.mu.Lock() of the call goroutine t is in
TakeLock(t) == SetLock(t) \/ GetLock(t) \/ DeleteLock(t)

\* Every other step of the call goroutine t is in: the bookkeeping under the
\* mutex, the unlock, the calls of the backing store and the return.
RunLru(t) ==
    \/ SetUpsert(t) \/ SetCharge(t) \/ SetEvict(t) \/ SetUnlock(t)
    \/ SetVictims(t) \/ SetStore(t)
    \/ GetLookup(t) \/ GetMiss(t) \/ GetUnlock(t) \/ GetRead(t)
    \/ DeletePurge(t) \/ DeleteUnlock(t) \/ DeleteStore(t)

\* New(c, LiveCap): one capacity, small enough that two keys do not fit.
LiveCap == 1

InitLru == Init /\ unit = "lru" /\ capacity = LiveCap

NextLru == \E t \in Threads : CallLru(t) \/ TakeLock(t) \/ RunLru(t)

\* A goroutine that can run does run and the calls of the backing store
\* return (weak fairness of its steps); a goroutine waiting for the mutex
\* gets it if it is free again and again (strong fairness of Lock). Callers
\* are free to call or not.
FairLru == \A t \in Threads : WF_vars(RunLru(t)) /\ SF_vars(TakeLock(t))

SpecLru == InitLru /\ [][NextLru]_vars /\ FairLru

----------------------------------------------------------------------------
(* The Peer, one call at a time: a RoundTrip by one of its entry points,   *)
(* SetPool, and the inbound requests of its boundary proxy                 *)

\* How a caller reaches the router: the Peer's embedded Client as a
\* transport, the Peer as a transport, the http.Client of
\* peer.HTTPClient(), or, in the earlier API, a Pool as a transport.
Entries == {"Client.RoundTrip", "Peer.RoundTrip", "Peer.HTTPClient",
            "Pool.RoundTrip"}

\* The inbound requests: their paths and raw queries.
InPaths == Paths \cup {<<"/", "another">>}
BadEscape == <<"http", ":", "/", "/", "10.0.1.", "%", "31", "/">>
Relative == <<"/", "res-a.js">>
Queries ==
    {<<>>, <<"q", "=">>, <<"x", "=", "1">>, <<"q", "=", "%", "zz">>}
    \cup {<<"q", "=">> \o QueryEscape(u) : u \in {ResA, ResC, BadEscape, Relative}}

\* A request handed to a transport: the transport, the request, what its
\* header held then, and what the transport gave back once it has.
Handed(via, r, hp) ==
    [via |-> via, req |-> r, had |-> Contents(hp, r.Header), out |-> NoOut,
     done |-> FALSE]

\* The transport in hand has given back out.
Answered(out) == [wire EXCEPT ![Len(wire)].out = out, ![Len(wire)].done = TRUE]

\* A caller builds a request and sends it by one of the entry points.
CallRouter(entry, method, url, accept) ==
    /\ unit = "peer"
    /\ call.pc \in {"idle", "returned"}
    /\ LET n == NewRequest(NoHeap, method, url, accept)
       IN  /\ heap' = n.heap
           /\ call' = [CIdle EXCEPT
                         !.pc = IF entry = "Peer.HTTPClient" THEN "Do" ELSE "RoundTrip",
                         !.entry = entry,
                         !.rcv = CASE entry = "Peer.RoundTrip" -> "Peer"
                                   [] entry = "Pool.RoundTrip" -> "PoolClient"
                                   [] OTHER -> "Client",
                         !.req = n.req, !.orig = n.req,
                         !.had = Contents(n.heap, n.req.Header)]
    /\ wire' = <<>>
    /\ ops' = <<>>
    /\ UNCHANGED <<lruVars, seqVars, mu, th, unit, clientVars, self, path, cache,
                   srv>>

\* Client.HTTPClient, promoted to the Peer: cl.Transport = c, the embedded
\* Client; http.Client.Do hands the request to that transport.
HTTPClientDo ==
    /\ call.pc = "Do"
    /\ call' = [call EXCEPT !.pc = "RoundTrip", !.rcv = "Client"]
    /\ UNCHANGED <<lruVars, seqVars, mu, th, unit, clientVars, self, path, heap,
                   wire, cache, srv, ops>>

\* Mutant of Key: the resource's host alone decides, as its first resource.
KeyByHost(r) == Join(String([r.URL EXCEPT !.Path = <<"/", "res-a.js">>]))

\* req.URL.String(), the key of the routing decision
Key(r) == Join(String(r.URL))

\* Mutant of choosePeer: past the last entry of the ring the lookup stays on
\* the last entry.
choosePeerNoWrap(url) ==
    IF Len(hashMap.keys) = 0 THEN NoPeer
    ELSE LET idx == Search(hashMap.keys, hashFn(url), 0, Len(hashMap.keys))
         IN  hashMap.hashMap[hashMap.keys[IF idx = Len(hashMap.keys) THEN idx
                                          ELSE idx + 1]]

\* Mutant of choosePeer: a Peer with no pool is its own owner.
choosePeerSelf(url) == IF peers = <<>> THEN self ELSE RingGet(hashMap, url)

\* Client.choosePeer, its read lock taken and released
choosePeer(url) == RingGet(hashMap, url)

\* Client.RoundTrip: peer := c.choosePeer(req.URL.String())
ClientRoundTrip ==
    /\ call.pc = "RoundTrip"
    /\ call.rcv = "Client"
    /\ call' = [call EXCEPT !.pc = "roundTripTo", !.members = peers,
                            !.peer = choosePeer(Key(call.req))]
    /\ UNCHANGED <<lruVars, seqVars, mu, th, unit, clientVars, self, path, heap,
                   wire, cache, srv, ops>>

\* RoundTrip of the earlier API, PoolClient's (later Client's) promoted to
\* the Pool: peer := c.peers.Get(req.URL.String()) under the read lock, and
\* on to the clone, its URL and Host, and the client's transport, whatever
\* the peer.
PoolClientRoundTrip ==
    /\ call.pc = "RoundTrip"
    /\ call.rcv = "PoolClient"
    /\ call' = [call EXCEPT !.pc = "roundTripTo", !.members = peers,
                            !.peer = RingGet(hashMap, Key(call.req))]
    /\ UNCHANGED <<lruVars, seqVars, mu, th, unit, clientVars, self, path, heap,
                   wire, cache, srv, ops>>

\* Mutant of PeerRoundTrip: the owner is not compared with self.
PeerRoundTripForward ==
    /\ call.pc = "RoundTrip"
    /\ call.rcv = "Peer"
    /\ call' = [call EXCEPT !.pc = "roundTripTo", !.members = peers,
                            !.peer = choosePeer(Key(call.req))]
    /\ UNCHANGED <<lruVars, seqVars, mu, th, unit, clientVars, self, path, heap,
                   wire, cache, srv, ops>>

\* Peer.RoundTrip: peer := p.Client.choosePeer(req.URL.String()), and the
\* branch on peer == p.self
PeerRoundTrip ==
    /\ call.pc = "RoundTrip"
    /\ call.rcv = "Peer"
    /\ LET peer == choosePeer(Key(call.req))
       IN  call' = [call EXCEPT !.pc = IF peer = self THEN "local" ELSE "roundTripTo",
                                !.members = peers, !.peer = peer]
    /\ UNCHANGED <<lruVars, seqVars, mu, th, unit, clientVars, self, path, heap,
                   wire, cache, srv, ops>>

\* Peer.RoundTrip: p.handler.Transport.RoundTrip(req), the request as it is
LocalDispatch ==
    /\ call.pc = "local"
    /\ call' = [call EXCEPT !.pc = "Transport"]
    /\ wire' = Append(wire, Handed("local", call.req, heap))
    /\ UNCHANGED <<lruVars, seqVars, mu, th, unit, clientVars, self, path, heap,
                   cache, srv, ops>>

\* Mutant of roundTripTo: with no peer to go to it returns an error of its
\* own and hands nothing to the transport.
roundTripToChecked ==
    /\ call.pc = "roundTripTo"
    /\ LET query == peerHandlerURL(call.peer, String(call.req.URL))
           c == clone(heap, call.req)
           cpy == [c.req EXCEPT !.URL = query, !.Host = query.Host]
       IN  IF call.peer = NoPeer
           THEN /\ call' = [call EXCEPT !.pc = "returned", !.res = Failure("no peer")]
                /\ UNCHANGED <<heap, wire>>
           ELSE /\ heap' = c.heap
                /\ call' = [call EXCEPT !.pc = "Transport", !.cpy = cpy]
                /\ wire' = Append(wire, Handed("outbound", cpy, c.heap))
    /\ UNCHANGED <<lruVars, seqVars, mu, th, unit, clientVars, self, path, cache,
                   srv, ops>>

\* Client.roundTripTo: the query, the clone and its URL and Host, and the
\* clone handed to c.transport
roundTripTo ==
    /\ call.pc = "roundTripTo"
    /\ LET query == peerHandlerURL(call.peer, String(call.req.URL))
           c == clone(heap, call.req)
           cpy == [c.req EXCEPT !.URL = query, !.Host = query.Host]
       IN  /\ heap' = c.heap
           /\ call' = [call EXCEPT !.pc = "Transport", !.cpy = cpy]
           /\ wire' = Append(wire, Handed("outbound", cpy, c.heap))
    /\ UNCHANGED <<lruVars, seqVars, mu, th, unit, clientVars, self, path, cache,
                   srv, ops>>

\* What a transport may do to the header of the request it was handed: leave
\* it, set a header of its own, or overwrite a value in place.
Touches == {"none", "set", "overwrite"}

Touched(hp, h, touch) ==
    CASE touch = "set" -> SetValues(hp, h, "Via", <<"1.1 peer">>)
      [] touch = "overwrite" /\ "Accept" \in DOMAIN hp.maps[h] ->
            [hp EXCEPT !.slices[hp.maps[h]["Accept"]] = <<"*/*">>]
      [] OTHER -> hp

\* c.transport.RoundTrip(cpy) runs: the peer-to-peer transport answers or
\* fails, and returns.
OutboundTransport(out, touch) ==
    /\ call.pc = "Transport"
    /\ wire[Len(wire)].via = "outbound"
    /\ heap' = Touched(heap, wire[Len(wire)].req.Header, touch)
    /\ wire' = Answered(out)
    /\ call' = [call EXCEPT !.pc = "return"]
    /\ UNCHANGED <<lruVars, seqVars, mu, th, unit, clientVars, self, path, cache,
                   srv, ops>>

\* Mutant of LocalTransport: the request goes to the origin-fetch transport
\* of the Peer.
LocalTransportDirect(origin) ==
    /\ call.pc = "Transport"
    /\ wire[Len(wire)].via = "local"
    /\ origin \in OriginOutcomes(Key(call.req))
    /\ ops' = ops \o <<"origin.RoundTrip">>
    /\ wire' = Answered(origin)
    /\ call' = [call EXCEPT !.pc = "return"]
    /\ UNCHANGED <<lruVars, seqVars, mu, th, unit, clientVars, self, path, heap,
                   cache, srv>>

\* p.handler.Transport.RoundTrip(req) runs: the caching transport over the
\* Peer's cache and its origin-fetch transport, and returns.
LocalTransport(origin) ==
    /\ call.pc = "Transport"
    /\ wire[Len(wire)].via = "local"
    /\ origin \in OriginOutcomes(Key(call.req))
    /\ LET r == CacheRoundTrip(cache, call.req.Method, Key(call.req), origin)
       IN  /\ cache' = r.cache
           /\ ops' = ops \o r.ops
           /\ wire' = Answered(r.out)
    /\ call' = [call EXCEPT !.pc = "return"]
    /\ UNCHANGED <<lruVars, seqVars, mu, th, unit, clientVars, self, path, heap,
                   srv>>

\* Mutant of Return: after an error the request is sent once more.
ReturnRetry ==
    /\ call.pc = "return"
    /\ IF wire[Len(wire)].out.err # "" /\ Len(wire) < 2
       THEN call' = [call EXCEPT !.pc = IF wire[Len(wire)].via = "local"
                                        THEN "local" ELSE "roundTripTo"]
       ELSE call' = [call EXCEPT !.pc = "returned", !.res = wire[Len(wire)].out]
    /\ UNCHANGED <<lruVars, seqVars, mu, th, unit, clientVars, self, path, heap,
                   wire, cache, srv, ops>>

\* RoundTrip returns what the transport returned.
Return ==
    /\ call.pc = "return"
    /\ call' = [call EXCEPT !.pc = "returned", !.res = wire[Len(wire)].out]
    /\ UNCHANGED <<lruVars, seqVars, mu, th, unit, clientVars, self, path, heap,
                   wire, cache, srv, ops>>

\* Mutant of PeerSetPool: the ring is left in the order the peers were
\* added.
PeerSetPoolUnsorted(ps) ==
    /\ unit = "peer"
    /\ call.pc \in {"idle", "returned"}
    /\ ps # peers
    /\ peers' = ps
    /\ hashMap' = RingAddPeers(RingNew, ps)
    /\ pool' = ps
    /\ UNCHANGED <<lruVars, seqVars, mu, th, unit, rw, rt, peerVars>>

\* Client.SetPool, promoted to the Peer, run to its end
PeerSetPool(ps) ==
    /\ unit = "peer"
    /\ call.pc \in {"idle", "returned"}
    /\ ps # peers
    /\ peers' = ps
    /\ hashMap' = RingAdd(RingNew, ps)
    /\ pool' = ps
    /\ UNCHANGED <<lruVars, seqVars, mu, th, unit, rw, rt, peerVars>>

\* The request just answered, as the next request's prev, and the URLs for
\* which a GET was answered 200 so far.
Served ==
    IF srv.pc = "done" /\ srv.forwarded
    THEN [method |-> srv.method, key |-> Key(srv.outreq), status |-> srv.status]
    ELSE NoPrev

Seen ==
    IF srv.pc = "done" /\ srv.forwarded /\ srv.method = "GET"
       /\ srv.status = StatusOK
    THEN srv.seen \cup {Key(srv.outreq)} ELSE srv.seen

\* A request arrives at the handler of the Peer.
Inbound(method, p, raw) ==
    /\ unit = "proxy"
    /\ srv.pc \in {"idle", "done"}
    /\ srv' = [SIdle EXCEPT !.pc = "ServeHTTP", !.method = method, !.Path = p,
                            !.RawQuery = raw, !.Host = Parse(Text(self)).url.Host,
                            !.before = cache, !.prev = Served, !.seen = Seen]
    /\ ops' = <<>>
    /\ UNCHANGED <<lruVars, seqVars, mu, th, unit, clientVars, self, path, call,
                   heap, wire, cache>>

\* w.WriteHeader(http.StatusBadGateway); return
BadGateway == [srv EXCEPT !.pc = "done", !.status = StatusBadGateway]

\* Mutant of ServeHTTP: the path is not compared.
ServeHTTPAnyPath ==
    /\ srv.pc = "ServeHTTP"
    /\ LET q == QueryGet(srv.RawQuery, "q")
           parsed == Parse(q)
       IN  srv' = IF q = <<>> THEN BadGateway
                  ELSE IF parsed.err # "" THEN BadGateway
                  ELSE [srv EXCEPT !.pc = "ReverseProxy", !.origin = parsed.url,
                                   !.forwarded = TRUE]
    /\ UNCHANGED <<lruVars, seqVars, mu, th, unit, clientVars, self, path, call,
                   heap, wire, cache, ops>>

\* Mutant of ServeHTTP: an empty q is not turned away.
ServeHTTPEmptyQuery ==
    /\ srv.pc = "ServeHTTP"
    /\ LET q == QueryGet(srv.RawQuery, "q")
           parsed == Parse(q)
       IN  srv' = IF srv.Path # path THEN BadGateway
                  ELSE IF parsed.err # "" THEN BadGateway
                  ELSE [srv EXCEPT !.pc = "ReverseProxy", !.origin = parsed.url,
                                   !.forwarded = TRUE]
    /\ UNCHANGED <<lruVars, seqVars, mu, th, unit, clientVars, self, path, call,
                   heap, wire, cache, ops>>

\* proxy.ServeHTTP: the path, the q parameter and its parse; the origin goes
\* on to the reverse proxy in the request's context
ServeHTTP ==
    /\ srv.pc = "ServeHTTP"
    /\ LET q == QueryGet(srv.RawQuery, "q")
           parsed == Parse(q)
       IN  srv' = IF srv.Path # path THEN BadGateway
                  ELSE IF q = <<>> THEN BadGateway
                  ELSE IF parsed.err # "" THEN BadGateway
                  ELSE [srv EXCEPT !.pc = "ReverseProxy", !.origin = parsed.url,
                                   !.forwarded = TRUE]
    /\ UNCHANGED <<lruVars, seqVars, mu, th, unit, clientVars, self, path, call,
                   heap, wire, cache, ops>>

\* The inbound request, as ServeHTTP hands it to the reverse proxy.
InboundRequest ==
    [NoReq EXCEPT !.Method = srv.method, !.URL.Path = srv.Path,
                  !.URL.RawQuery = srv.RawQuery, !.Host = srv.Host,
                  !.ctx = "background"]

\* Mutant of director: the Host of the inbound request is kept.
directorKeepHost(req, origin) == [req EXCEPT !.URL = origin]

\* director: req.URL = origin; req.Host = origin.Host
director(req, origin) == [req EXCEPT !.URL = origin, !.Host = origin.Host]

\* ReverseProxy's error handler, for an error of its transport: 502 and no
\* body
ProxyError(s) == [s EXCEPT !.pc = "done", !.status = StatusBadGateway]

\* Mutant of WriteResponse: a response that is not a 200 is answered 502.
WriteResponseOK(s, res) ==
    IF res.status # StatusOK THEN ProxyError(s)
    ELSE [s EXCEPT !.pc = "done", !.status = res.status, !.body = res.body,
                   !.fromCache = res.fromCache]

\* Mutant of WriteResponse: the headers of the response are not copied.
WriteResponseBare(s, res) ==
    [s EXCEPT !.pc = "done", !.status = res.status, !.body = res.body]

\* ReverseProxy writes the response of its transport: the status, the
\* headers, X-From-Cache among them, and the body
WriteResponse(s, res) ==
    [s EXCEPT !.pc = "done", !.status = res.status, !.body = res.body,
              !.fromCache = res.fromCache]

\* ReverseProxy.ServeHTTP: the director points the request at the origin,
\* the caching transport runs, and the response or a 502 for its error is
\* written.
ReverseProxyServe(origin) ==
    /\ srv.pc = "ReverseProxy"
    /\ LET outreq == director(InboundRequest, srv.origin)
           r == CacheRoundTrip(cache, outreq.Method, Key(outreq), origin)
           s == [srv EXCEPT !.outreq = outreq,
                            !.fetched = IF "origin.RoundTrip" \in Range(r.ops)
                                        THEN origin ELSE NoOut]
       IN  /\ origin \in OriginOutcomes(Key(outreq))
           /\ cache' = r.cache
           /\ ops' = ops \o r.ops
           /\ srv' = IF r.out.err # "" THEN ProxyError(s)
                     ELSE WriteResponse(s, r.out)
    /\ UNCHANGED <<lruVars, seqVars, mu, th, unit, clientVars, self, path, call,
                   heap, wire>>

\* A Peer built over a Client with a pool, and the callers of its router.
InitPeer ==
    /\ unit = "peer"
    /\ CacheInit(0)
    /\ \E ps \in Pools : ClientInit(ps)
    /\ \E s \in Selves, p \in Paths : PeerInit(s, p)
    /\ ret = NoRet
    /\ last = NoCall
    /\ watch = NoWatch
    /\ recent = <<>>

NextPeer ==
    \/ \E entry \in Entries, method \in Methods, url \in Resources,
          accept \in BOOLEAN : CallRouter(entry, method, url, accept)
    \/ HTTPClientDo
    \/ ClientRoundTrip
    \/ PeerRoundTrip
    \/ PoolClientRoundTrip
    \/ LocalDispatch
    \/ roundTripTo
    \/ \E out \in OutboundOutcomes, touch \in Touches : OutboundTransport(out, touch)
    \/ \E origin \in AnyOrigin : LocalTransport(origin)
    \/ Return
    \/ \E ps \in Pools : PeerSetPool(ps)

SpecPeer == InitPeer /\ [][NextPeer]_vars

\* The boundary proxy of a Peer, and the requests that reach its handler.
InitProxy ==
    /\ unit = "proxy"
    /\ CacheInit(0)
    /\ ClientInit(<<>>)
    /\ \E s \in Selves, p \in Paths : PeerInit(s, p)
    /\ ret = NoRet
    /\ last = NoCall
    /\ watch = NoWatch
    /\ recent = <<>>

NextProxy ==
    \/ \E method \in Methods, p \in InPaths, raw \in Queries : Inbound(method, p, raw)
    \/ ServeHTTP
    \/ \E origin \in AnyOrigin : ReverseProxyServe(origin)

SpecProxy == InitProxy /\ [][NextProxy]_vars

\* A Peer in either of its two roles: routing the calls of its own process,
\* or serving the requests that reach its handler.
InitNode == InitPeer \/ InitProxy

NextNode == NextPeer \/ NextProxy

SpecNode == InitNode /\ [][NextNode]_vars

----------------------------------------------------------------------------
(* Claims about the LRU layer                                               *)

\* Position of key k in sequence q (0 when absent).
Pos(q, k) == IF k \in Range(q) THEN CHOOSE i \in 1..Len(q) : q[i] = k ELSE 0

Reverse(q) == [i \in 1..Len(q) |-> q[Len(q) + 1 - i]]

\* C1: whenever the LRU lock is free, the tracked sizes sum to at most the
\* configured capacity, or the index holds exactly one entry and that entry
\* alone is larger than the capacity.
C1_CapacityInvariant ==
    mu = NoThread =>
        \/ Tracked(items) <= capacity
        \/ /\ Cardinality(DOMAIN items) = 1
           /\ \A k \in DOMAIN items : items[k] > capacity

\* C1 witness: the lock is free and the index holds one oversized entry,
\* stored by a Set that has returned, while another Set is in progress.
C1_Witness ==
    /\ unit = "lru"
    /\ mu = NoThread
    /\ \E k \in DOMAIN items :
          DOMAIN items = {k} /\ items[k] > capacity /\ k \in DOMAIN store
    /\ \E t \in Threads : th[t].op = "Set" /\ th[t].pc = "SetLock"

\* C2: a sequential Set never leaves the index empty, and a Set of a value
\* longer than the capacity leaves its key as the only tracked key, with every
\* other key that was tracked gone from the backing store and the value stored.
C2_SingleItemExemption ==
    [][\A k \in Keys, v \in Values :
         SeqSet(k, v) =>
            /\ Len(list') >= 1
            /\ DOMAIN items' # {}
            /\ Len(v) > capacity =>
                  /\ list' = <<k>>
                  /\ DOMAIN items' = {k}
                  /\ items'[k] = Len(v)
                  /\ \A j \in DOMAIN items \ {k} : j \notin DOMAIN store'
                  /\ k \in DOMAIN store' /\ store'[k] = v]_vars

\* C2 witness: an oversized Set has evicted two tracked keys and its key is the
\* only one left, in the index and in the store.
C2_Witness ==
    /\ last.op = "Set"
    /\ Len(last.resp) > capacity
    /\ Len(last.victims) = 2
    /\ list = <<last.key>>
    /\ DOMAIN store = {last.key}

\* The first four rows of TestSet as pre- and post-states of the Set calls.
TestRow(pre, sizes, k, n, post) ==
    (/\ capacity = TestCap
     /\ list = pre
     /\ DOMAIN items = Range(pre)
     /\ \A i \in 1..Len(pre) : items[pre[i]] = sizes[i]
     /\ cap = TestCap - Tracked(items)
     /\ DOMAIN store = Range(pre)
     /\ SeqSet(k, Blob(n, 0)))
    => (list' = post /\ DOMAIN store' = Range(post))

\* C3: a sequential Set evicts the tracked keys from the least to the most
\* recently used (by last Set or last Get that hit), one after another, exactly
\* while the budget is negative and more than one entry remains; and with capacity 10, key1(4B), key2(4B), key3(4B),
\* key4(6B) leave the store holding {key1}, {key2,key1}, {key3,key2},
\* {key4,key3}.
C3_EvictionOrder ==
    [][/\ \A k \in Keys, v \in Values :
            SeqSet(k, v) =>
              LET L == <<k>> \o Without(recent, k)
                  j == Len(list')
                  sizeOf(x) == IF x = k THEN Len(v) ELSE items[x]
                  budget(n) == capacity - SumSizes([x \in Range(L) |-> sizeOf(x)],
                                                   {L[i] : i \in 1..n})
              IN  /\ j >= 1
                  /\ list' = SubSeq(L, 1, j)
                  /\ recent' = list'
                  /\ last'.victims = Reverse(SubSeq(L, j + 1, Len(L)))
                  /\ \A i \in 1..Len(last'.victims) :
                        last'.victims[i] \notin DOMAIN store'
                  /\ budget(j) >= 0 \/ j = 1
                  /\ \A n \in (j + 1)..Len(L) : budget(n) < 0
       /\ TestRow(<<>>, <<>>, "key1", 4, <<"key1">>)
       /\ TestRow(<<"key1">>, <<4>>, "key2", 4, <<"key2", "key1">>)
       /\ TestRow(<<"key2", "key1">>, <<4, 4>>, "key3", 4, <<"key3", "key2">>)
       /\ TestRow(<<"key3", "key2">>, <<4, 4>>, "key4", 6, <<"key4", "key3">>)]_vars

\* C3 witness: the state after the fourth row of TestSet, key2 just evicted.
C3_Witness ==
    /\ capacity = TestCap
    /\ last.op = "Set" /\ last.key = "key4" /\ last.victims = <<"key2">>
    /\ list = <<"key4", "key3">>
    /\ items["key4"] = 6 /\ items["key3"] = 4
    /\ DOMAIN store = {"key4", "key3"}

\* C4: once a Get has hit key K, a Set that evicts K has first evicted every
\* key that was tracked at that Get and has not been touched since.
C4_Recency ==
    [][\A k \in Keys, v \in Values :
         (SeqSet(k, v) /\ watch.key \in Range(last'.victims)) =>
            \A j \in watch.untouched \ {k} :
               /\ j \in Range(last'.victims)
               /\ Pos(last'.victims, j) < Pos(last'.victims, watch.key)]_vars

\* C4 witness: after a Get hit on K, a Set of a new key has evicted an
\* untouched key while K and another untouched key are still tracked.
C4_Witness ==
    /\ watch.key \in DOMAIN items
    /\ last.op = "Set" /\ ~last.hit
    /\ last.victims # <<>>
    /\ Pos(list, watch.key) = 2

\* C5: a sequential Get(k) right after Set(k, v) returns v, found.
C5_SetGetRoundTrip ==
    [][\A k \in Keys :
         (SeqGet(k) /\ last.op = "Set" /\ last.key = k) =>
            ret' = [ok |-> TRUE, resp |-> last.resp]]_vars

\* C5 witness: a Get right after a Set of the same key has returned a value
\* longer than the capacity.
C5_Witness ==
    /\ last.op = "Get" /\ last.fresh
    /\ ret.ok
    /\ Len(ret.resp) > capacity
    /\ capacity > 0

\* C6: a sequential Delete of a tracked key removes it from the index and the
\* store, returns its tracked size to the budget and changes no other entry;
\* a Get of the key right after it misses.
C6_DeleteFrame ==
    [][\A k \in Keys :
         /\ (SeqDelete(k) /\ k \in DOMAIN items) =>
               /\ k \notin DOMAIN items'
               /\ k \notin Range(list')
               /\ k \notin DOMAIN store'
               /\ cap' = cap + items[k]
               /\ items' = [j \in DOMAIN items \ {k} |-> items[j]]
               /\ list' = Without(list, k)
               /\ store' = [j \in DOMAIN store \ {k} |-> store[j]]
         /\ (SeqGet(k) /\ last.op = "Delete" /\ last.key = k) =>
               /\ ~ret'.ok
               /\ items' = items /\ list' = list /\ cap' = cap]_vars

\* C6 witness: a Delete has removed a tracked key from between two others.
C6_Witness ==
    /\ last.op = "Delete" /\ last.hit
    /\ Len(list) >= 2
    /\ last.key \notin DOMAIN items \cup DOMAIN store


\* C7: whenever the LRU lock is free, the index map and the recency list
\* hold the same keys, each once, and the remaining budget plus the tracked
\* sizes is the configured capacity.
C7_IndexConsistent ==
    mu = NoThread =>
        /\ Range(list) = DOMAIN items
        /\ Len(list) = Cardinality(DOMAIN items)
        /\ cap + Tracked(items) = capacity

\* C7 witness: two entries are tracked, the lock is free, one goroutine is
\* writing to the store and the other is waiting to enter a Delete.
C7_Witness ==
    /\ mu = NoThread
    /\ Len(list) = 2
    /\ \E t, u \in Threads :
          /\ th[t].pc = "SetStore"
          /\ th[u].pc = "DeleteLock" /\ th[u].key = th[t].key

\* The positions at which a goroutine is in a call of the backing store.
StoreIO == {"SetVictims", "SetStore", "GetRead", "DeleteStore"}

\* C8: a goroutine in a backing-store call does not hold the LRU mutex, and a
\* goroutine in the outbound transport's RoundTrip does not hold the Client's
\* read/write lock.
C8_NoLockDuringIO ==
    /\ \A t \in Threads : th[t].pc \in StoreIO => mu # t
    /\ \A t \in Threads :
          rt[t].pc = "Transport" => t \notin rw.readers /\ rw.writer # t

\* C8 witness: one goroutine is in a store call while the other one holds the
\* mutex.
C8_Witness ==
    \E t, u \in Threads : th[t].pc \in StoreIO /\ mu = u /\ u # t

\* C8, for the Client: one goroutine is in the transport while the other one
\* holds the write lock.
C8_WitnessClient ==
    \E t, u \in Threads : rt[t].pc = "Transport" /\ rw.writer = u /\ u # t

\* C9: a Get that hit the index returns what the backing store holds at its
\* read, a miss when the key is gone, without looking at the index again and
\* without another attempt.
C9_RelaxedGet ==
    [][\A t \in Threads :
         (th[t].pc = "GetRead" /\ th'[t].pc # "GetRead") =>
            /\ th'[t].pc = "idle"
            /\ th'[t].hit
            /\ th'[t].ret = IF th[t].key \in DOMAIN store
                            THEN [ok |-> TRUE, resp |-> store[th[t].key]]
                            ELSE [ok |-> FALSE, resp |-> <<>>]
            /\ <<items, list, cap, store, mu>>' = <<items, list, cap, store, mu>>]_vars

\* C9 witness: a Get found its key in the index and returned a miss, a
\* concurrent Set having evicted the key between its unlock and its read.
C9_Witness ==
    \E t \in Threads :
        th[t].pc = "idle" /\ th[t].hit /\ ~th[t].ret.ok /\ th[t].lost = "evicted"

\* C9, second case: the same with a concurrent Delete of the key.
C9_WitnessDelete ==
    \E t \in Threads :
        th[t].pc = "idle" /\ th[t].hit /\ ~th[t].ret.ok /\ th[t].lost = "deleted"

----------------------------------------------------------------------------
(* Claims about the Client                                                  *)

\* The owner a ring built from the peer list ps gives to url.
Owner(ps, url) == RingGet(RingOf(ps), url)

\* C10: a routing decision reads a ring that holds exactly the peer list of a
\* SetPool that has returned, and its owner is the one given by the peer list
\* in force when the decision started or by one installed while it ran.
C10_SetPoolAtomic ==
    \A t \in Threads :
        /\ rt[t].pc = "Get" =>
              /\ hashMap = RingOf(peers)
              /\ peers = pool
              /\ peers \in rt[t].seen
        /\ rt[t].pc \in {"RUnlock", "roundTripTo", "Transport"} =>
              rt[t].peer \in {Owner(ps, rt[t].url) : ps \in rt[t].seen}

\* C10 witness: a decision that started under one peer list and ran while a
\* SetPool installed another has the new list's owner, which the old list
\* would not have given.
C10_Witness ==
    \E t \in Threads :
        /\ rt[t].pc = "roundTripTo"
        /\ Cardinality(rt[t].seen) = 2
        /\ rt[t].peer = Owner(pool, rt[t].url)
        /\ \E ps \in rt[t].seen : ps # <<>> /\ Owner(ps, rt[t].url) # rt[t].peer

\* The goroutines whose routing decision is made.
Resolved == {t \in Threads : rt[t].pc \in {"RUnlock", "roundTripTo", "Transport"}}

\* The owners a ring holding the peer list ps can give.
Members(ps) == IF ps = <<>> THEN {NoPeer} ELSE Range(ps)

\* C11 as stated: a routing decision that starts after SetPool(P), P not
\* empty, has returned and before the next SetPool is called resolves to a
\* member of P.
C11_StartsBeforeNextSetPool ==
    \A t \in Resolved :
        rt[t].start \notin {Unsettled, <<>>} => rt[t].peer \in Range(rt[t].start)

\* C11 amended: a routing decision resolves to a member of the peer list in
\* force when it started or of one a SetPool installed while it ran, so to a
\* member of P when no SetPool returned between the return of SetPool(P) and
\* the decision's lookup; a peer of an earlier list only is never chosen.
C11_MembershipReplaced ==
    \A t \in Resolved :
        /\ rt[t].peer \in UNION {Members(ps) : ps \in rt[t].seen}
        /\ \A P \in Pools :
              rt[t].seen = {P} /\ P # <<>> => rt[t].peer \in Range(P)

\* C11 witness: SetPool(<<PeerC>>) has returned, and a decision made under it
\* alone resolved a URL to PeerC that every other peer list gives to another
\* peer.
C11_Witness ==
    \E t \in Resolved :
        /\ rt[t].seen = {<<PeerC>>}
        /\ peers = <<PeerC>>
        /\ rt[t].peer = PeerC
        /\ \A ps \in Pools \ {<<PeerC>>} : Owner(ps, rt[t].url) # PeerC

----------------------------------------------------------------------------
(* Claims about the router of a Peer and of its Client                      *)

\* The calls whose routing decision is made.
Routed == call.pc \in {"local", "roundTripTo", "Transport", "return", "returned"}

\* The calls that have handed their request to a transport.
Dispatched == call.pc \in {"Transport", "return", "returned"}

\* The URL the caller asked for, as a text and as a string.
Asked == String(call.orig.URL)

\* C12: whatever the entry point, the method and the headers, the owner a
\* routing decision resolves is the one the ring of the peer list (with the
\* replica count and the hash function) gives to the whole URL string of
\* the request, so equal membership and equal URL give an equal owner.
C12_RoutingDeterminism ==
    Routed => call.peer = Owner(call.members, Join(Asked))

\* C12 witness: a POST with a header, sent through the Peer, and resolved
\* to another peer than a GET of another resource of the same host would be.
C12_Witness ==
    /\ call.pc = "returned"
    /\ call.entry = "Peer.RoundTrip"
    /\ call.orig.Method = "POST"
    /\ "Accept" \in DOMAIN call.had
    /\ call.peer = PeerB
    /\ \E u \in Resources :
          /\ u # Asked
          /\ Parse(u).url.Host = call.orig.URL.Host
          /\ Owner(call.members, Join(u)) # PeerB

\* C13: the request a router hands to the outbound transport for owner O
\* and URL U has O's scheme and host, the configured path, the query
\* q=<U percent-encoded>, from which the q parameter reads back as U, and
\* O's host as Host; for owner http://a.com:3000, path /p and
\* http://some.url/res-a.js it is the URL TestClient expects.
C13_ForwardRewriting ==
    \A i \in 1..Len(wire) :
        wire[i].via = "outbound" /\ call.peer # NoPeer =>
            LET r == wire[i].req
            IN  /\ Join(<<r.URL.Scheme, ":", "/", "/">> \o r.URL.Host) = call.peer
                /\ r.URL.Path = path
                /\ r.URL.RawQuery = <<"q", "=">> \o QueryEscape(Asked)
                /\ QueryGet(r.URL.RawQuery, "q") = Asked
                /\ r.Host = r.URL.Host
                /\ Join(String(r.URL))
                      = call.peer \o Join(path) \o "?q=" \o Join(QueryEscape(Asked))
                /\ call.peer = PeerA /\ path = <<"/", "p">> /\ Asked = ResA =>
                      Join(String(r.URL))
                        = "http://a.com:3000/p?q=http%3A%2F%2Fsome.url%2Fres-a.js"

\* C13 witness: the outbound transport has answered the request for
\* http://some.url/res-a.js forwarded to http://a.com:3000 on /p.
C13_Witness ==
    /\ call.pc = "returned"
    /\ call.peer = PeerA
    /\ path = <<"/", "p">>
    /\ Asked = ResA
    /\ wire[1].via = "outbound"
    /\ wire[1].done

\* C14: once a RoundTrip has forwarded to another peer, and after it has
\* returned with a response or an error, the caller's request has the URL,
\* the Host and the header map it had, holding what it held; the request
\* handed over is a copy whose header map and value slices are its own and
\* held the same values.
C14_CloneIsolation ==
    Dispatched /\ wire[1].via = "outbound" =>
        /\ call.req = call.orig
        /\ Contents(heap, call.req.Header) = call.had
        /\ call.cpy.Header # call.req.Header
        /\ SlicesOf(heap, call.cpy.Header) \cap SlicesOf(heap, call.req.Header) = {}
        /\ wire[1].req = call.cpy
        /\ wire[1].had = call.had

\* C14 witness: the transport overwrote a header value of the request it
\* was handed and failed, and the RoundTrip has returned.
C14_Witness ==
    /\ call.pc = "returned"
    /\ wire[1].via = "outbound"
    /\ call.res.err # ""
    /\ "Accept" \in DOMAIN call.had
    /\ Contents(heap, call.cpy.Header) # call.had

\* C15: a Peer.RoundTrip whose owner is self hands the request once, as it
\* is, to the local boundary transport and never to the outbound transport;
\* one whose owner is another peer hands it to the outbound transport and
\* never to the local one.
C15_LocalShortCircuit ==
    call.entry = "Peer.RoundTrip" /\ Routed =>
        /\ \A i \in 1..Len(wire) :
              wire[i].via = IF call.peer = self THEN "local" ELSE "outbound"
        /\ Dispatched => Len(wire) = 1
        /\ Dispatched /\ call.peer = self =>
              /\ wire[1].req = call.orig
              /\ wire[1].had = call.had

\* C15 witness: a Peer.RoundTrip whose owner is self has returned what the
\* local boundary transport gave.
C15_Witness ==
    /\ call.pc = "returned"
    /\ call.entry = "Peer.RoundTrip"
    /\ call.peer = self
    /\ wire[1].via = "local"
    /\ wire[1].done
    /\ ops # <<>>

\* C16: a request sent through peer.HTTPClient() is dispatched as
\* Peer.RoundTrip dispatches it: to the local boundary transport when the
\* owner is self, to the outbound transport otherwise.
C16_HTTPClientAsPeer ==
    call.entry = "Peer.HTTPClient" /\ Dispatched =>
        \A i \in 1..Len(wire) :
            wire[i].via = IF call.peer = self THEN "local" ELSE "outbound"

\* C17: a RoundTrip hands its request to one transport, once, addressed to
\* the owner it resolved, and returns what that transport returned, also
\* when that is an error.
C17_NoRetryNoFailover ==
    /\ Len(wire) <= 1
    /\ call.pc \in {"return", "returned"} => Len(wire) = 1 /\ wire[1].done
    /\ call.pc = "returned" => call.res = wire[1].out
    /\ \A i \in 1..Len(wire) :
          /\ wire[i].via = "outbound" /\ call.peer # NoPeer =>
                Join(<<wire[i].req.URL.Scheme, ":", "/", "/">> \o wire[i].req.URL.Host)
                  = call.peer
          /\ wire[i].via = "local" => call.peer = self

\* C17 witness: the outbound transport failed to reach the owner, and the
\* RoundTrip has returned that error after the one attempt.
C17_Witness ==
    /\ call.pc = "returned"
    /\ wire[1].via = "outbound"
    /\ call.peer = PeerB
    /\ call.res = Failure("connection refused")

----------------------------------------------------------------------------
(* Claims about the boundary proxy                                          *)

\* The inbound requests the proxy has decided on.
Decided == srv.pc \in {"ReverseProxy", "done"}

\* The q parameter of the inbound request.
Target == QueryGet(srv.RawQuery, "q")

\* A text that is a syntactically valid absolute URL.
AbsoluteURL(q) == Parse(q).err = "" /\ Parse(q).url.Scheme # ""

\* C18: a request whose path is not the configured path is answered 502 with
\* an empty body and goes no further, whatever its query.
C18_PathCheck ==
    Decided /\ srv.Path # path =>
        /\ srv.pc = "done"
        /\ srv.status = StatusBadGateway
        /\ srv.body = ""

\* C18 witness: a request with a well-formed q for a resource the origin
\* holds, on a path that is another proxy's, has been answered.
C18_Witness ==
    /\ srv.pc = "done"
    /\ srv.Path \in Paths \ {path}
    /\ Target = ResA
    /\ srv.status = StatusBadGateway

\* C19: on the configured path, a request whose q is absent, empty or no
\* syntactically valid absolute URL is answered 502 with an empty body, and
\* only a request whose q is a valid absolute URL is forwarded.
C19_TargetValidation ==
    Decided /\ srv.Path = path =>
        /\ ~AbsoluteURL(Target) =>
              /\ srv.pc = "done"
              /\ srv.status = StatusBadGateway
              /\ srv.body = ""
        /\ srv.forwarded => AbsoluteURL(Target)

\* C20: a request the proxy turns away, for its path, for a missing or empty
\* q or for a q that does not parse, is answered at once: no cache call, no
\* origin fetch, the cache as it was.
C20_RejectionNoSideEffects ==
    Decided /\ (srv.Path # path \/ Target = <<>> \/ Parse(Target).err # "") =>
        /\ srv.pc = "done"
        /\ ~srv.forwarded
        /\ srv.status = StatusBadGateway
        /\ ops = <<>>
        /\ cache = srv.before

\* C20 witness: the cache holds the resource a request asks for, and the
\* request, on another path, was turned away without a look at the cache.
C20_Witness ==
    /\ srv.pc = "done"
    /\ srv.Path # path
    /\ srv.method = "GET"
    /\ Join(Target) \in cache
    /\ srv.status = StatusBadGateway
    /\ ~srv.fromCache
    /\ ops = <<>>

----------------------------------------------------------------------------
(* Claims about the answers of the boundary proxy                           *)

\* The requests the proxy has answered after handing them to the caching
\* transport, and the URL they were for.
Proxied == srv.pc = "done" /\ srv.forwarded

\* C21: the answer to a request the proxy forwarded has the status and the
\* body the origin fetch produced: those of the response the origin-fetch
\* transport gave for this request, or, when the cache answered, those the
\* origin gives for that URL; a 404 of the origin is answered 404 with the
\* origin's body, on the first request and on the next.
C21_StatusPassThrough ==
    Proxied =>
        /\ srv.fetched # NoOut /\ srv.fetched.err = "" =>
              /\ srv.status = srv.fetched.status
              /\ srv.body = srv.fetched.body
        /\ srv.fetched = NoOut =>
              /\ srv.status = OriginMock(Key(srv.outreq)).status
              /\ srv.body = OriginMock(Key(srv.outreq)).body
        /\ srv.status = StatusBadGateway => srv.fetched.err # ""

\* C21 witness: a resource the origin does not hold was asked for twice in
\* a row, and each time the origin's 404 and its body were the answer.
C21_Witness ==
    /\ Proxied
    /\ srv.method = "GET"
    /\ srv.prev = [method |-> "GET", key |-> Key(srv.outreq),
                   status |-> StatusNotFound]
    /\ srv.fetched = Response(StatusNotFound, "Not Found")
    /\ srv.status = StatusNotFound
    /\ srv.body = "Not Found"

\* C22: a forwarded GET carries the cache-hit indicator only when a GET of
\* the same URL was answered 200 by this proxy before, so the first one
\* carries none; the GET that repeats a GET answered 200 carries it and is
\* answered without an origin fetch; a POST and a 404 never carry it.
C22_CacheHitIndicator ==
    Proxied =>
        /\ srv.fromCache =>
              /\ srv.method = "GET"
              /\ Key(srv.outreq) \in srv.seen
              /\ Key(srv.outreq) \in srv.before
        /\ srv.method = "GET"
           /\ srv.prev = [method |-> "GET", key |-> Key(srv.outreq),
                          status |-> StatusOK] =>
              /\ srv.fromCache
              /\ srv.status = StatusOK
              /\ srv.fetched = NoOut
              /\ "origin.RoundTrip" \notin Range(ops)
        /\ srv.method = "POST" \/ srv.status = StatusNotFound => ~srv.fromCache

\* C22 witness: the GET that repeats a GET the origin answered 200 has been
\* answered from the cache, with the indicator and without an origin fetch.
C22_Witness ==
    /\ Proxied
    /\ srv.method = "GET"
    /\ srv.prev = [method |-> "GET", key |-> Join(ResA), status |-> StatusOK]
    /\ Key(srv.outreq) = Join(ResA)
    /\ srv.fromCache
    /\ ops = <<"cache.Get">>

\* C23: the request the reverse proxy hands to the caching transport for an
\* accepted request has the URL parsed from q, that URL's host as Host and
\* the method of the inbound request; the path of the proxy and the query
\* with its q parameter are not in it, and the cache and the origin are
\* asked for the URL of q.
C23_BoundaryRetargeting ==
    Proxied =>
        /\ Parse(Target).err = ""
        /\ srv.outreq.URL = Parse(Target).url
        /\ srv.outreq.Host = Parse(Target).url.Host
        /\ srv.outreq.Method = srv.method
        /\ srv.outreq.URL.RawQuery # srv.RawQuery
        /\ srv.outreq.URL.Path # srv.Path
        /\ srv.outreq.Host # srv.Host
        /\ Key(srv.outreq) = Join(Target)

\* C23 witness: a POST of q = http://some.url/res-a.js on /p was handed to
\* the caching transport as a POST of http://some.url/res-a.js with Host
\* some.url, and the origin was asked.
C23_Witness ==
    /\ Proxied
    /\ srv.method = "POST"
    /\ srv.Path = <<"/", "p">>
    /\ srv.RawQuery = <<"q", "=">> \o QueryEscape(ResA)
    /\ Join(String(srv.outreq.URL)) = "http://some.url/res-a.js"
    /\ srv.outreq.Host = <<"some.url">>
    /\ srv.fetched = Response(StatusOK, "OK")

----------------------------------------------------------------------------
(* Claims about what a router forwards and where a peer fetches            *)

\* C24: the request a router hands to a transport has the method, the
\* header names and values, the body and the context of the caller's
\* request; the clone sent to another peer differs from the caller's
\* request in its URL and Host only (and in having a header map of its
\* own), and the local boundary transport is handed the caller's request
\* itself, so a header the caller set is in the request either way.
C24_VerbatimForwarding ==
    Dispatched =>
        /\ wire[1].req.Method = call.orig.Method
        /\ wire[1].had = call.had
        /\ wire[1].req.Body = call.orig.Body
        /\ wire[1].req.ctx = call.orig.ctx
        /\ wire[1].via = "outbound" =>
              [wire[1].req EXCEPT !.URL = call.orig.URL, !.Host = call.orig.Host,
                                  !.Header = call.orig.Header] = call.orig
        /\ wire[1].via = "local" => wire[1].req = call.orig

\* C24 witness: a POST with a header, a body and a deadline was forwarded
\* to another peer under another URL and Host, and has returned.
C24_Witness ==
    /\ call.pc = "returned"
    /\ wire[1].via = "outbound"
    /\ call.orig.Method = "POST"
    /\ call.orig.Body = "payload"
    /\ call.orig.ctx = "deadline"
    /\ "Accept" \in DOMAIN wire[1].had
    /\ wire[1].req.URL # call.orig.URL
    /\ wire[1].req.Host # call.orig.Host

\* The calls httpcache.Transport.RoundTrip opens with: the lookup of a GET,
\* the invalidation for another method.
CacheFirst == {"cache.Get", "cache.Delete"}

\* C25: every call of the origin-fetch transport is made by the caching
\* transport, after its look at the cache: a request the Peer routes to
\* itself and a request its proxy accepts both enter the caching transport,
\* and a request routed to another peer makes no origin fetch here.
C25_CacheNeverBypassed ==
    /\ \A i \in 1..Len(ops) :
          ops[i] = "origin.RoundTrip" => i > 1 /\ ops[i - 1] \in CacheFirst
    /\ Dispatched /\ wire[1].via = "local" /\ wire[1].done =>
          ops # <<>> /\ ops[1] \in CacheFirst
    /\ Proxied => ops # <<>> /\ ops[1] \in CacheFirst
    /\ Dispatched /\ wire[1].via = "outbound" => ops = <<>>

\* C25 witness: a Peer.RoundTrip whose owner is self has returned the
\* origin's response, fetched and stored by the caching transport.
C25_Witness ==
    /\ call.pc = "returned"
    /\ call.peer = self
    /\ wire[1].via = "local"
    /\ call.res = Response(StatusOK, "OK")
    /\ ops = <<"cache.Get", "origin.RoundTrip", "cache.Set">>

\* C25 witness of the proxy: an accepted inbound POST was fetched from the
\* origin by the caching transport.
C25_WitnessProxy ==
    /\ Proxied
    /\ srv.method = "POST"
    /\ srv.fetched = Response(StatusOK, "OK")
    /\ ops = <<"cache.Delete", "origin.RoundTrip", "cache.Delete">>

----------------------------------------------------------------------------
(* Claims about the ring, as the router of a Peer reads it                  *)

\* The virtual nodes of a peer list: hash value and peer.
RingEntries(ps) ==
    {<<hashFn(<<i, p>>), p>> : i \in 0..(Replicas - 1), p \in Range(ps)}

\* The entry of smallest hash value among es.
Lowest(es) == CHOOSE e \in es : \A f \in es : e[1] <= f[1]

\* C26: for a ring that is not empty, the owner of a key is the peer of the
\* entry of smallest hash value >= hash(key), and the peer of the entry of
\* smallest hash value of all when hash(key) is above every entry; it is
\* one peer, and a member of the peer list.
C26_RingLookupRule ==
    Routed /\ call.members # <<>> =>
        LET h == hashFn(Join(Asked))
            es == RingEntries(call.members)
            ge == {e \in es : e[1] >= h}
        IN  /\ call.peer = IF ge # {} THEN Lowest(ge)[2] ELSE Lowest(es)[2]
            /\ call.peer \in Range(call.members)
            /\ call.peer # NoPeer

\* C26 witness: a key whose hash is above every entry of a ring of two
\* peers was resolved to the peer of the lowest entry, which is not the
\* peer of the highest.
C26_Witness ==
    /\ Routed
    /\ Len(call.members) >= 2
    /\ \A e \in RingEntries(call.members) : e[1] < hashFn(Join(Asked))
    /\ call.peer = Lowest(RingEntries(call.members))[2]
    /\ \E e \in RingEntries(call.members) :
          /\ \A f \in RingEntries(call.members) : f[1] <= e[1]
          /\ e[2] # call.peer

\* C27: a ring with no peers gives no peer for every key, so a router whose
\* pool is empty, as it is before any SetPool or WithPool, resolves every
\* URL to no owner.
C27_EmptyRing ==
    /\ Routed /\ call.members = <<>> => call.peer = NoPeer
    /\ peers = <<>> =>
          /\ hashMap = RingNew
          /\ \A u \in Resources : choosePeer(Join(u)) = NoPeer

\* C27 witness: a Peer with no pool resolved the URL of a request to no
\* owner.
C27_Witness ==
    /\ Routed
    /\ call.entry = "Peer.RoundTrip"
    /\ call.members = <<>>
    /\ peers = <<>>
    /\ call.peer = NoPeer

\* The peer list new holds the peers of old and one more.
OneAdded(old, new) ==
    /\ Len(new) = Len(old) + 1
    /\ Range(old) \subseteq Range(new)
    /\ Cardinality(Range(new) \ Range(old)) = 1

\* C28: when a SetPool installs the peers in force and one more (same
\* replica count, same hash function), every key whose owner changes has
\* the added peer as its new owner: no key goes from one of the earlier
\* peers to another of them.
C28_MinimalDisruption ==
    [][\A ps \in Pools :
          PeerSetPool(ps) /\ OneAdded(peers, ps) =>
              \A u \in Resources :
                  RingGet(hashMap', Join(u)) # RingGet(hashMap, Join(u)) =>
                      RingGet(hashMap', Join(u)) \in Range(ps) \ Range(peers)]_vars

\* C28 witness: a call made under two peers resolved a key to one of them;
\* the pool now holds a third peer, which owns that key, and every other
\* key has the owner it had: one key in three has moved.
C28_Witness ==
    /\ call.pc = "returned"
    /\ OneAdded(call.members, peers)
    /\ Len(call.members) = 2
    /\ call.peer \in Range(call.members)
    /\ choosePeer(Join(Asked)) \in Range(peers) \ Range(call.members)
    /\ \A u \in Resources \ {Asked} :
          choosePeer(Join(u)) = Owner(call.members, Join(u))

----------------------------------------------------------------------------
(* Claims about the earlier API: Pool and PoolClient                        *)

\* C29: a RoundTrip of a Pool whose chosen peer is the Pool's self hands the
\* request to the local transport and not to the network transport.
C29_PoolLocalDirect ==
    call.entry = "Pool.RoundTrip" /\ Dispatched /\ call.peer = self =>
        wire[1].via = "local"

----------------------------------------------------------------------------
(* More claims about the LRU layer                                          *)

----------------------------------------------------------------------------
(* Claims about Set, Get and Delete among concurrent callers               *)

\* Goroutine t takes the step that leaves position where.
Leaves(t, where) == th[t].pc = where /\ th'[t] # th[t]

\* C31: the victims a Set has collected never include its own key; when the
\* Set releases the mutex its key is tracked and the victim list goes as it
\* is to the delete loop; that loop deletes the victims from the store one by
\* one, in order, and only when none is left does the Set write its key and
\* value, once, and return.
C31_SetKeepsItsKey ==
    [][\A t \in Threads :
         /\ th[t].op = "Set" => th[t].key \notin Range(th[t].victims)
         /\ Leaves(t, "SetUnlock") =>
               /\ th[t].key \in DOMAIN items
               /\ Range(th[t].victims) \cap DOMAIN items = {}
               /\ mu' = NoThread
               /\ th'[t].pc = "SetVictims"
               /\ th'[t].victims = th[t].victims
               /\ store' = store
         /\ Leaves(t, "SetVictims") =>
               IF th[t].victims # <<>>
               THEN /\ store' = MapDelete(store, Head(th[t].victims))
                    /\ th'[t].victims = Tail(th[t].victims)
                    /\ th'[t].pc = "SetVictims"
               ELSE /\ store' = store
                    /\ th'[t].pc = "SetStore"
         /\ Leaves(t, "SetStore") =>
               /\ th[t].victims = <<>>
               /\ store' = MapSet(store, th[t].key, th[t].resp)
               /\ th'[t].pc = "idle"]_vars

\* C31 witness: a Set that collected a victim has released the mutex with its
\* own key tracked and has not deleted the victim yet.
C31_Witness ==
    \E t \in Threads :
        /\ th[t].pc = "SetVictims"
        /\ Len(th[t].victims) = 1
        /\ mu = NoThread
        /\ th[t].key \in DOMAIN items
        /\ Head(th[t].victims) \in DOMAIN store

\* C31, the write: a Set is about to write its key, the victim it deleted
\* being gone from the store and a Get of that victim having lost it.
C31_WitnessWrite ==
    \E t, u \in Threads :
        /\ th[t].pc = "SetStore"
        /\ th[t].key \in DOMAIN items
        /\ th[u].pc = "GetRead" /\ th[u].lost = "evicted"
        /\ th[u].key \notin DOMAIN store \cup DOMAIN items

\* C32: a Get whose key is not in the index changes neither the index, the
\* recency order, the budget nor the store; it goes from the lookup straight
\* to its early return, never to the store read, and it returns not found,
\* whatever the store holds for the key.
C32_IndexMissGet ==
    [][\A t \in Threads :
         /\ (Leaves(t, "GetLookup") /\ th[t].key \notin DOMAIN items) =>
               /\ <<items, list, cap, store>>' = <<items, list, cap, store>>
               /\ th'[t].pc = "GetMiss"
         /\ Leaves(t, "GetMiss") =>
               /\ <<items, list, cap, store>>' = <<items, list, cap, store>>
               /\ mu' = NoThread
               /\ th'[t].pc = "idle"
               /\ ~th'[t].hit
               /\ th'[t].ret = [ok |-> FALSE, resp |-> <<>>]]_vars

\* C32 witness: a Get has missed the index and is at its early return while
\* the store holds a value for its key, written by a Set that a Delete
\* overtook.
C32_Witness ==
    \E t \in Threads :
        /\ th[t].op = "Get" /\ th[t].pc = "GetMiss"
        /\ th[t].key \in DOMAIN store
        /\ th[t].key \notin DOMAIN items

\* C33: a Delete whose key is not in the index leaves the index, the recency
\* order and the budget as they are; every Delete, that one included, then
\* releases the mutex and issues one Delete of its key to the store and
\* returns; and in the index a Delete leaves, a further Delete of the same
\* key changes nothing, however often it is repeated.
C33_DeleteUntracked ==
    [][\A t \in Threads :
         /\ Leaves(t, "DeletePurge") =>
               /\ th[t].key \notin DOMAIN items =>
                     <<items, list, cap>>' = <<items, list, cap>>
               /\ LET once == Index(items', list', cap')
                      twice == DeleteLocked(once, th[t].key)
                  IN  twice = once /\ DeleteLocked(twice, th[t].key) = once
               /\ store' = store
               /\ th'[t].pc = "DeleteUnlock"
         /\ Leaves(t, "DeleteUnlock") =>
               /\ <<items, list, cap, store>>' = <<items, list, cap, store>>
               /\ th'[t].pc = "DeleteStore"
         /\ Leaves(t, "DeleteStore") =>
               /\ <<items, list, cap>>' = <<items, list, cap>>
               /\ store' = MapDelete(store, th[t].key)
               /\ th'[t].pc = "idle"]_vars

\* C33 witness: a Delete found its key untracked, another key being tracked,
\* and is about to delete from the store the value it holds for the key.
C33_Witness ==
    \E t \in Threads :
        /\ th[t].op = "Delete" /\ th[t].pc = "DeleteStore"
        /\ ~th[t].hit
        /\ th[t].key \in DOMAIN store
        /\ items # EmptyMap

\* No goroutine is in a call of the cache.
Quiescent == \A t \in Threads : th[t].pc = "idle"

\* C34: whenever no call of the cache is in progress, the store, empty at New
\* and written only by the cache, holds exactly the keys the index tracks.
C34_QuiescentAgreement ==
    (unit = "lru" /\ Quiescent) => DOMAIN store = DOMAIN items

\* C35: whenever no call of the cache is in progress, the size the index
\* tracks for a key is the length of the value the store holds for it.
C35_QuiescentSizes ==
    (unit = "lru" /\ Quiescent) =>
        \A k \in DOMAIN items \cap DOMAIN store : items[k] = Len(store[k])

\* The mutex is held only by a goroutine between its Lock and its Unlock.
Locked == {"SetUpsert", "SetCharge", "SetEvict", "SetUnlock", "GetLookup",
           "GetMiss", "GetUnlock", "DeletePurge", "DeleteUnlock"}

\* C36: under fair scheduling and a fair mutex every call of Set, Get and
\* Delete returns, whatever the other goroutine does, so no call in progress
\* is ever stuck for good; the mutex is held by a goroutine exactly while it
\* is between its Lock and its Unlock, so never by one that has returned;
\* and each iteration of the eviction loop takes one entry off the list.
C36_Progress ==
    /\ \A t \in Threads : (th[t].pc # "idle") ~> (th[t].pc = "idle")
    /\ [](\A t \in Threads : mu = t <=> th[t].pc \in Locked)
    /\ [][\A t \in Threads :
            (Leaves(t, "SetEvict") /\ th'[t].pc = "SetEvict") =>
               Len(list') = Len(list) - 1]_vars

\* C36 witness: a Set holds the mutex in its eviction loop with a victim
\* collected while the other goroutine waits for the mutex.
C36_Witness ==
    \E t, u \in Threads :
        /\ th[t].pc = "SetEvict" /\ th[t].victims # <<>> /\ mu = t
        /\ th[u].pc \in {"SetLock", "GetLock", "DeleteLock"}

----------------------------------------------------------------------------
(* Claims about a router whose pool is empty                               *)

\* A RoundTrip of a Client or of a Peer that found the pool empty and has
\* gone past its routing decision.
EmptyPooled ==
    /\ call.rcv \in {"Client", "Peer"}
    /\ call.members = <<>>
    /\ call.pc \in {"Transport", "return", "returned"}

\* C37: a RoundTrip of a Client, or of a Peer whose self is not empty, that
\* finds the pool empty never takes the local branch and fails with no error
\* of its own: it hands one request, a clone of the caller's, to the outbound
\* transport, for a URL that has no scheme and no host, the boundary path and
\* the query q from which the caller's URL reads back, with an empty Host,
\* and it returns what that transport returned.
C37_EmptyPoolRouting ==
    /\ self # NoPeer /\ call.rcv \in {"Client", "Peer"} /\ call.members = <<>> =>
          call.pc # "local"
    /\ self # NoPeer /\ EmptyPooled =>
          /\ Len(wire) = 1
          /\ wire[1].via = "outbound"
          /\ LET r == wire[1].req
             IN  /\ r.URL.Scheme = "" /\ r.URL.Host = <<>> /\ r.Host = <<>>
                 /\ r.URL.Path = path
                 /\ r.URL.RawQuery = <<"q", "=">> \o QueryEscape(Asked)
                 /\ QueryGet(r.URL.RawQuery, "q") = Asked
                 /\ Join(String(r.URL))
                       = Join(path) \o "?q=" \o Join(QueryEscape(Asked))
                 /\ r = call.cpy
                 /\ r.Method = call.orig.Method
                 /\ r.Header # call.orig.Header
                 /\ wire[1].had = call.had
          /\ call.req = call.orig
          /\ call.pc = "returned" => wire[1].done /\ call.res = wire[1].out

\* C37 witness: a Peer whose self is http://a.com:3000 and whose pool is
\* empty has sent a request to /proxy?q=... with no host, and has returned
\* the error of the outbound transport.
C37_Witness ==
    /\ call.pc = "returned"
    /\ call.entry = "Peer.RoundTrip"
    /\ self = PeerA
    /\ call.members = <<>> /\ peers = <<>>
    /\ wire[1].via = "outbound"
    /\ wire[1].req.URL.Host = <<>>
    /\ call.res.err # ""

\* C37, for the Client: the same by Client.RoundTrip, the transport having
\* answered.
C37_WitnessClient ==
    /\ call.pc = "returned"
    /\ call.entry = "Client.RoundTrip"
    /\ call.members = <<>>
    /\ wire[1].via = "outbound"
    /\ wire[1].req.URL.Scheme = ""
    /\ call.res.err = ""

====
